---- MODULE Spec2Model ----
(***************************************************************************)
(* Model of go.astrophena.name/site, package site (internal/site):         *)
(* the build pipeline (Build, Page.parse, the page sort) and the           *)
(* development server (Serve, debouncer, watch loop).                      *)
(*                                                                         *)
(* Strings are sequences of one-character strings, so that suffix tests,   *)
(* concatenation and path cleaning are computed as the code computes them. *)
(***************************************************************************)
EXTENDS Integers, Sequences, FiniteSets, TLC

VARIABLES
    \* ---- harness of the page sort (Build, sort.SliceStable call) ----
    pagesIn,      \* b.pages as collected by parsePages (discovery order)
    pagesOut,     \* b.pages after sort.SliceStable
    sortRan,      \* TRUE once the sort has run on pagesIn
    \* ---- harness of Page.parse (destination path) ----
    permalink,    \* p.Permalink as decoded from the front matter
    dstPath,      \* p.dstPath as computed by parse
    parseErr,     \* what parse returned: "pending" before the call, "nil" on success
    doc,          \* the content file handed to parse: extension, lines, front matter fields
    page,         \* the Page after parse: front matter and contents as split, the fields
    \* ---- harness of shouldRebuild and of the HTTP handler ----
    event,        \* the fsnotify event handed to shouldRebuild: dir, base, op
    rebuild,      \* what shouldRebuild returned: "true", "false"; "pending" before the call
    request,      \* r.URL.Path of the request handed to the handler
    response,     \* the response of the handler: status (0 before the call), body
    handler,      \* where the handler is in a request served during a rebuild, and its p
    \* ---- harness of the template helpers and of the other pure functions ----
    args,         \* the call: fn (the function) and its arguments
    ret,          \* what the call returned: done (FALSE before the call), value
    \* ---- Serve, the debouncer and the Build calls ----
    c,            \* the Config of the Serve call: Prod, SkipFeed
    src,          \* the source tree: templates, pages, static files
    servePc,      \* where Serve is: "initialBuild", "serving", "returned"
    serveErr,     \* what Serve returned: "none" while running, "nil", "err"
    ctxDone,      \* the context is cancelled
    watcher,      \* the fsnotify watcher: "none", "open", "closed"
    events,       \* watcher.Events: events not yet taken by the watch loop
    watchLoop,    \* the watch goroutine: "notStarted", "running", "stopped"
    httpSrv,      \* the HTTP server: "none", "serving", "failed", "closed"
    debouncer,    \* debouncer.t: the number of the timer it points at, 0 for nil
    timers,       \* every timer made by time.AfterFunc: state, and d.t when it fired
    builds,       \* the buildContext and position of every Build call
    dst,          \* the destination directory: exists, files (path -> content)
    lastGood,     \* dst as it was when a Build call last returned nil
    touched,      \* the Build calls that changed dst since then
    nChanges      \* file-system changes so far

sortVars == <<pagesIn, pagesOut, sortRan>>
parseVars == <<permalink, dstPath, parseErr, doc, page>>
watchVars == <<event, rebuild>>
httpVars == <<request, response, handler>>
funcVars == <<args, ret>>
hvars == <<sortVars, parseVars, watchVars, httpVars, funcVars>>
svars == <<c, src, servePc, serveErr, ctxDone, watcher, events, watchLoop, httpSrv,
           debouncer, timers, builds, dst, lastGood, touched, nChanges>>
vars == <<hvars, svars>>

-----------------------------------------------------------------------------
(* Bounds of the model.                                                    *)

MaxPages == 4      \* longest page list enumerated exhaustively
MaxDate == 2       \* dates are 1..MaxDate; NoDate stands for Date == nil
MaxPieces == 3     \* permalinks are "/" followed by up to MaxPieces pieces

NoDate == 0

\* sort.Stable sorts blocks of this size by insertion and then merges them.
blockSize == 20

-----------------------------------------------------------------------------
(* Strings.                                                                *)

HasSuffix(s, suf) ==
    /\ Len(s) >= Len(suf)
    /\ SubSeq(s, Len(s) - Len(suf) + 1, Len(s)) = suf

HasPrefix(s, pre) ==
    /\ Len(s) >= Len(pre)
    /\ SubSeq(s, 1, Len(pre)) = pre

RECURSIVE Flatten(_)
Flatten(ss) == IF ss = <<>> THEN <<>> ELSE Head(ss) \o Flatten(Tail(ss))

\* strings.Split(s, "/"): the segments between slashes, empty ones included.
RECURSIVE SplitSlash(_, _, _)
SplitSlash(s, cur, acc) ==
    IF s = <<>> THEN Append(acc, cur)
    ELSE IF Head(s) = "/" THEN SplitSlash(Tail(s), <<>>, Append(acc, cur))
    ELSE SplitSlash(Tail(s), Append(cur, Head(s)), acc)

RECURSIVE JoinSlash(_)
JoinSlash(segs) ==
    IF segs = <<>> THEN <<>>
    ELSE IF Len(segs) = 1 THEN Head(segs)
    ELSE Head(segs) \o <<"/">> \o JoinSlash(Tail(segs))

\* path.Clean on a rooted path: empty and "." elements are dropped, a ".."
\* element removes the element before it (and is dropped at the root), and
\* the result has no trailing slash unless it is the root.
RECURSIVE CleanSegs(_, _)
CleanSegs(segs, stack) ==
    IF segs = <<>> THEN stack
    ELSE LET seg == Head(segs) IN
         IF seg = <<>> \/ seg = <<".">> THEN CleanSegs(Tail(segs), stack)
         ELSE IF seg = <<".", ".">>
              THEN CleanSegs(Tail(segs),
                             IF stack = <<>> THEN stack
                             ELSE SubSeq(stack, 1, Len(stack) - 1))
         ELSE CleanSegs(Tail(segs), Append(stack, seg))

Clean(p) == <<"/">> \o JoinSlash(CleanSegs(SplitSlash(p, <<>>, <<>>), <<>>))

dotHTML == <<".", "h", "t", "m", "l">>

-----------------------------------------------------------------------------
(* Page.parse: destination path.                                           *)

\* url.ParseRequestURI on the strings enumerated here (no scheme, no escape,
\* no control character): a non-empty path that starts with a slash.
ValidRequestURI(s) == Len(s) > 0 /\ s[1] = "/"

\* A regression to the older scheme, where every page became a directory
\* holding an index.html.
DstPathIndexDir(p) ==
    Clean(IF ~HasSuffix(p, dotHTML) THEN p \o <<"/">> \o <<"i", "n", "d", "e", "x">> \o dotHTML
          ELSE p)

DstPath(p) ==
    LET d == IF ~HasSuffix(p, dotHTML)
             THEN (IF p = <<"/">> THEN p \o <<"i", "n", "d", "e", "x">> ELSE p) \o dotHTML
             ELSE p
    IN Clean(d)

-----------------------------------------------------------------------------
(* Page.parse: the split into front matter and contents, the decoding.     *)
(*                                                                         *)
(* A content file is its extension, its lines and the fields that its      *)
(* fields line spells.  A line is one of: leftDelim, rightDelim, a fields  *)
(* line (JSON members, no trailing comma), a text line (anything else, not *)
(* JSON) and a long line (bufio.MaxScanTokenSize bytes or more).           *)

leftDelim == "{"
rightDelim == "}"
fieldsLine == "fields"
textLine == "text"
longLine == "long"

supportedFormats == {".html", ".md"}

\* bufio.Scanner with ScanLines: the lines up to the first long line, at
\* which Scan returns false and Err reports ErrTooLong.
RECURSIVE Scan(_)
Scan(lines) ==
    IF lines = <<>> \/ Head(lines) = longLine THEN <<>>
    ELSE <<Head(lines)>> \o Scan(Tail(lines))

ScanErr(lines) == \E k \in 1..Len(lines) : lines[k] = longLine

\* the variables of the loop before the first line
splitStart ==
    [frontmatter |-> <<>>, contents |-> <<>>,
     reachedFrontmatter |-> FALSE, reachedContents |-> FALSE]

\* one round of the loop over the scanned lines
splitLine(st, line) ==
    IF ~st.reachedContents /\ line = rightDelim
    THEN [st EXCEPT !.reachedFrontmatter = FALSE,
                    !.frontmatter = Append(@, line),
                    !.reachedContents = TRUE]
    ELSE LET rf == IF ~st.reachedContents /\ line = leftDelim
                   THEN TRUE ELSE st.reachedFrontmatter
         IN IF rf
            THEN [st EXCEPT !.reachedFrontmatter = rf, !.frontmatter = Append(@, line)]
            ELSE IF st.reachedContents
            THEN [st EXCEPT !.contents = Append(@, line)]
            ELSE st

RECURSIVE split(_, _)
split(st, lines) ==
    IF lines = <<>> THEN st ELSE split(splitLine(st, Head(lines)), Tail(lines))

ZeroFields == [Title |-> "", Template |-> "", Permalink |-> <<>>, Type |-> ""]

\* json.Unmarshal(frontmatter, p) on the lines of this model: an object
\* without members, or an object whose members are one fields line.
decodes(frontmatter) ==
    \/ frontmatter = <<leftDelim, rightDelim>>
    \/ frontmatter = <<leftDelim, fieldsLine, rightDelim>>

decoded(frontmatter, fields) ==
    IF frontmatter = <<leftDelim, fieldsLine, rightDelim>> THEN fields ELSE ZeroFields

ZeroPage ==
    [frontmatter |-> <<>>, contents |-> <<>>, Title |-> "", Template |-> "", Type |-> ""]

\* Page.parse: the format check, the split, the decoding of the front
\* matter, the default type, the field checks and the destination path.
parse(d) ==
    LET st == split(splitStart, Scan(d.lines))
        f  == decoded(st.frontmatter, d.fields)
        pg == [frontmatter |-> st.frontmatter, contents |-> st.contents,
               Title |-> f.Title, Template |-> f.Template,
               Type |-> IF f.Type = "" THEN "page" ELSE f.Type]
        out(err, pg0, perm, dp) ==
            [err |-> err, page |-> pg0, Permalink |-> perm, dstPath |-> dp]
    IN
    IF d.ext \notin supportedFormats THEN out("errFormatUnsupported", ZeroPage, <<>>, <<>>)
    ELSE IF ScanErr(d.lines)
    THEN out("errFrontmatterSplit",
             [ZeroPage EXCEPT !.frontmatter = st.frontmatter], <<>>, <<>>)
    ELSE IF Len(st.frontmatter) = 0
    THEN out("errFrontmatterMissing", ZeroPage, <<>>, <<>>)
    ELSE IF ~decodes(st.frontmatter)
    THEN out("errFrontmatterParse",
             [ZeroPage EXCEPT !.frontmatter = st.frontmatter, !.contents = st.contents],
             <<>>, <<>>)
    ELSE IF f.Title = "" \/ f.Template = "" \/ f.Permalink = <<>>
    THEN out("errFrontmatterMissingParam", pg, f.Permalink, <<>>)
    ELSE IF ~ValidRequestURI(f.Permalink)
    THEN out("errPermalinkInvalid", pg, f.Permalink, <<>>)
    ELSE out("nil", pg, f.Permalink, DstPath(f.Permalink))

-----------------------------------------------------------------------------
(* Build: the page sort.                                                   *)

\* The comparator handed to sort.SliceStable; i and j are 0-based indices.
less(data, i, j) ==
    IF data[i + 1].Date = NoDate \/ data[j + 1].Date = NoDate THEN TRUE
    ELSE ~(data[i + 1].Date < data[j + 1].Date)

Swap(data, i, j) == [data EXCEPT ![i + 1] = data[j + 1], ![j + 1] = data[i + 1]]

RECURSIVE insertInner(_, _, _)
insertInner(data, a, j) ==
    IF j > a /\ less(data, j, j - 1)
    THEN insertInner(Swap(data, j, j - 1), a, j - 1)
    ELSE data

RECURSIVE insertOuter(_, _, _, _)
insertOuter(data, a, b, i) ==
    IF i < b THEN insertOuter(insertInner(data, a, i), a, b, i + 1) ELSE data

insertionSort(data, a, b) == insertOuter(data, a, b, a + 1)

RECURSIVE swapRange(_, _, _, _)
swapRange(data, a, b, n) ==
    IF n = 0 THEN data
    ELSE swapRange(Swap(data, a, b), a + 1, b + 1, n - 1)

RECURSIVE rotateLoop(_, _, _, _)
rotateLoop(data, m, i, j) ==
    IF i = j THEN swapRange(data, m - i, m, i)
    ELSE IF i > j THEN rotateLoop(swapRange(data, m - i, m, j), m, i - j, j)
    ELSE rotateLoop(swapRange(data, m - i, m + j - i, i), m, i, j - i)

rotate(data, a, m, b) == rotateLoop(data, m, m - a, b - m)

\* lowest i in [i, j) with ~less(h, a)
RECURSIVE searchFirst(_, _, _, _)
searchFirst(data, a, i, j) ==
    IF i < j
    THEN LET h == (i + j) \div 2 IN
         IF less(data, h, a) THEN searchFirst(data, a, h + 1, j)
         ELSE searchFirst(data, a, i, h)
    ELSE i

\* lowest i in [i, j) with less(m, h)
RECURSIVE searchLast(_, _, _, _)
searchLast(data, m, i, j) ==
    IF i < j
    THEN LET h == (i + j) \div 2 IN
         IF ~less(data, m, h) THEN searchLast(data, m, h + 1, j)
         ELSE searchLast(data, m, i, h)
    ELSE i

RECURSIVE bubbleRight(_, _, _)
bubbleRight(data, k, stop) ==
    IF k < stop THEN bubbleRight(Swap(data, k, k + 1), k + 1, stop) ELSE data

RECURSIVE bubbleLeft(_, _, _)
bubbleLeft(data, k, stop) ==
    IF k > stop THEN bubbleLeft(Swap(data, k, k - 1), k - 1, stop) ELSE data

RECURSIVE searchSym(_, _, _, _)
searchSym(data, p, start, r) ==
    IF start < r
    THEN LET cc == (start + r) \div 2 IN
         IF ~less(data, p - cc, cc) THEN searchSym(data, p, cc + 1, r)
         ELSE searchSym(data, p, start, cc)
    ELSE start

RECURSIVE symMerge(_, _, _, _)
symMerge(data, a, m, b) ==
    IF m - a = 1
    THEN bubbleRight(data, a, searchFirst(data, a, m, b) - 1)
    ELSE IF b - m = 1
    THEN bubbleLeft(data, m, searchLast(data, m, a, m))
    ELSE LET mid   == (a + b) \div 2
             n     == mid + m
             start == IF m > mid THEN searchSym(data, n - 1, n - b, mid)
                      ELSE searchSym(data, n - 1, a, m)
             end   == n - start
             d1    == IF start < m /\ m < end THEN rotate(data, start, m, end) ELSE data
             d2    == IF a < start /\ start < mid THEN symMerge(d1, a, start, mid) ELSE d1
         IN IF mid < end /\ end < b THEN symMerge(d2, mid, end, b) ELSE d2

RECURSIVE sortBlocks(_, _, _, _)
sortBlocks(data, n, a, b) ==
    IF b <= n THEN sortBlocks(insertionSort(data, a, b), n, b, b + blockSize)
    ELSE insertionSort(data, a, n)

RECURSIVE mergePass(_, _, _, _, _)
mergePass(data, n, bs, a, b) ==
    IF b <= n THEN mergePass(symMerge(data, a, a + bs, b), n, bs, b, b + 2 * bs)
    ELSE IF a + bs < n THEN symMerge(data, a, a + bs, n)
    ELSE data

RECURSIVE mergeBlocks(_, _, _)
mergeBlocks(data, n, bs) ==
    IF bs < n THEN mergeBlocks(mergePass(data, n, bs, 0, 2 * bs), n, 2 * bs)
    ELSE data

\* sort.SliceStable(b.pages, less)
SliceStable(data) ==
    LET n == Len(data) IN mergeBlocks(sortBlocks(data, n, 0, blockSize), n, blockSize)

-----------------------------------------------------------------------------
(* More strings: what hashStatic, copyStatic and shouldRebuild need.       *)

Contains(s, sub) ==
    \E k \in 0..(Len(s) - Len(sub)) : SubSeq(s, k + 1, k + Len(sub)) = sub

\* strings.Index(s, "."): the 1-based position of the first dot, 0 if none.
IndexDot(s) ==
    IF \E k \in 1..Len(s) : s[k] = "."
    THEN CHOOSE k \in 1..Len(s) : s[k] = "." /\ \A m \in 1..(k - 1) : s[m] # "."
    ELSE 0

\* the 1-based position of the last slash, 0 if none.
LastSlash(s) ==
    IF \E k \in 1..Len(s) : s[k] = "/"
    THEN CHOOSE k \in 1..Len(s) : s[k] = "/" /\ \A m \in (k + 1)..Len(s) : s[m] # "/"
    ELSE 0

\* filepath.Base of a path without trailing slash: the last element.
Base(p) == IF p = <<>> THEN <<".">> ELSE SubSeq(p, LastSlash(p) + 1, Len(p))

\* path.Join(dir, name) for a dir that is empty or ends in a slash.
JoinDir(dir, name) ==
    IF dir = <<>> THEN name
    ELSE IF dir[1] = "/" THEN Clean(dir \o name)
    ELSE Tail(Clean(<<"/">> \o dir \o name))

formatStaticName(filename, hash) ==
    IF filename = <<>> THEN <<>>
    ELSE IF hash = <<>> THEN filename
    ELSE LET dir  == SubSeq(filename, 1, LastSlash(filename))
             base == SubSeq(filename, LastSlash(filename) + 1, Len(filename))
             i    == IndexDot(base)
         IN IF i # 0
            THEN JoinDir(dir, SubSeq(base, 1, i - 1) \o <<"-">> \o hash \o SubSeq(base, i, Len(base)))
            ELSE JoinDir(dir, base \o <<"-">> \o hash)

isIgnorable(path) ==
    \/ HasSuffix(path, <<"~">>)
    \/ Contains(path, <<".", "g", "i", "t", "i", "g", "n", "o", "r", "e">>)

robotsTxtName == <<"r", "o", "b", "o", "t", "s", ".", "t", "x", "t">>

skipHashing == {robotsTxtName}

\* shouldRebuild that compares the whole path, not its base name
shouldRebuildWholePath(path, op) ==
    IF path = <<".", "D", "S", "_", "S", "t", "o", "r", "e">> THEN FALSE
    ELSE IF path = <<"4", "9", "1", "3">> THEN FALSE
    ELSE IF HasSuffix(path, <<"~">>) THEN FALSE
    ELSE IF "Create" \in op THEN TRUE
    ELSE IF "Remove" \in op THEN TRUE
    ELSE IF "Write" \in op THEN TRUE
    ELSE FALSE

\* fsnotify.Op is a bit set; an event carries the set of its bits.
shouldRebuild(path, op) ==
    LET base == Base(path) IN
    IF base = <<".", "D", "S", "_", "S", "t", "o", "r", "e">> THEN FALSE
    ELSE IF base = <<"4", "9", "1", "3">> THEN FALSE
    ELSE IF HasSuffix(base, <<"~">>) THEN FALSE
    ELSE IF "Create" \in op THEN TRUE
    ELSE IF "Remove" \in op THEN TRUE
    ELSE IF "Write" \in op THEN TRUE
    ELSE FALSE

-----------------------------------------------------------------------------
(* The url helper of the templates.                                        *)

\* path.Clean on any path: as Clean, but an unrooted path keeps the ".."
\* elements it cannot resolve and an empty result is "."
RECURSIVE cleanElems(_, _, _)
cleanElems(segs, stack, rooted) ==
    IF segs = <<>> THEN stack
    ELSE LET seg == Head(segs) IN
         IF seg = <<>> \/ seg = <<".">> THEN cleanElems(Tail(segs), stack, rooted)
         ELSE IF seg = <<".", ".">>
              THEN IF stack # <<>> /\ stack[Len(stack)] # <<".", ".">>
                   THEN cleanElems(Tail(segs), SubSeq(stack, 1, Len(stack) - 1), rooted)
                   ELSE IF rooted THEN cleanElems(Tail(segs), stack, rooted)
                   ELSE cleanElems(Tail(segs), Append(stack, seg), rooted)
         ELSE cleanElems(Tail(segs), Append(stack, seg), rooted)

pathClean(p) ==
    IF p = <<>> THEN <<".">>
    ELSE LET rooted == p[1] = "/"
             segs == cleanElems(SplitSlash(p, <<>>, <<>>), <<>>, rooted)
         IN IF rooted THEN <<"/">> \o JoinSlash(segs)
            ELSE IF segs = <<>> THEN <<".">>
            ELSE JoinSlash(segs)

\* path.Join(a, b): the empty elements are dropped, the rest is joined with
\* slashes and cleaned; the empty string when nothing is left
pathJoin(a, b) ==
    LET elems == SelectSeq(<<a, b>>, LAMBDA e : e # <<>>) IN
    IF elems = <<>> THEN <<>> ELSE pathClean(JoinSlash(elems))

\* the escaping of URL.EscapedPath on the characters used here
RECURSIVE escapePath(_)
escapePath(p) ==
    IF p = <<>> THEN <<>>
    ELSE (IF Head(p) = "?" THEN <<"%", "3", "F">> ELSE <<Head(p)>>) \o escapePath(Tail(p))

\* URL.String of a URL that has a scheme and a host, and no user, query or
\* fragment
URLString(u) ==
    LET p == escapePath(u.Path) IN
    u.Scheme \o <<":", "/", "/">> \o u.Host
        \o (IF p # <<>> /\ p[1] # "/" THEN <<"/">> ELSE <<>>) \o p

httpPrefix == <<"h", "t", "t", "p", ":", "/", "/">>
httpsPrefix == <<"h", "t", "t", "p", "s", ":", "/", "/">>

isFullURL(u) == HasPrefix(u, httpPrefix) \/ HasPrefix(u, httpsPrefix)

\* url that joins onto the base URL in development mode too
urlAnyMode(cfg, base) ==
    IF isFullURL(base) \/ cfg.BaseURL.nil THEN base
    ELSE URLString([cfg.BaseURL EXCEPT !.Path = pathJoin(@, base)])

\* buildContext.url, on the Config of the build context
url(cfg, base) ==
    IF isFullURL(base) \/ ~cfg.Prod \/ cfg.BaseURL.nil THEN base
    ELSE URLString([cfg.BaseURL EXCEPT !.Path = pathJoin(@, base)])

-----------------------------------------------------------------------------
(* Page.build: the stripping of HTML comments.                             *)
(*                                                                         *)
(* The contents of a page are a sequence of tokens: the opening of a       *)
(* comment, the closing of a comment, a newline and any other text.        *)

commentOpen == "<!--"
commentClose == "-->"
newline == "\n"
text == "x"

\* where a match of htmlCommentRe that begins at token i ends, 0 if none
\* begins there: (.*?) takes as little as it can, and the dot matches no
\* newline
commentEnd(s, i) ==
    IF s[i] # commentOpen THEN 0
    ELSE IF \A j \in (i + 1)..Len(s) : s[j] # commentClose THEN 0
    ELSE LET j == CHOOSE j \in (i + 1)..Len(s) :
                      s[j] = commentClose /\ \A m \in (i + 1)..(j - 1) : s[m] # commentClose
         IN IF \E m \in (i + 1)..(j - 1) : s[m] = newline THEN 0 ELSE j

\* htmlCommentRe.ReplaceAll(p.contents, []byte{}), from token i on
RECURSIVE replaceAll(_, _)
replaceAll(s, i) ==
    IF i > Len(s) THEN <<>>
    ELSE IF commentEnd(s, i) # 0 THEN replaceAll(s, commentEnd(s, i) + 1)
    ELSE <<s[i]>> \o replaceAll(s, i + 1)

stripComments(contents) == replaceAll(contents, 1)

-----------------------------------------------------------------------------
(* The source tree, the configuration and the destination directory.       *)

MaxEvents == 2     \* file-system changes in one run of the dev server

BuildIds == 0..MaxEvents   \* 0: the initial build of Serve; g: the rebuild of timer g
TimerIds == 1..MaxEvents

PageIndex ==
    [id |-> 1, Permalink |-> <<"/">>, Template |-> "layout",
     Date |-> NoDate, Draft |-> FALSE, Type |-> ""]
PagePost ==
    [id |-> 2, Permalink |-> <<"/", "a">>, Template |-> "layout",
     Date |-> 1, Draft |-> FALSE, Type |-> "post"]
\* a draft post that names a template the tree does not have
PageDraft ==
    [id |-> 2, Permalink |-> <<"/", "a">>, Template |-> "post",
     Date |-> 1, Draft |-> TRUE, Type |-> "post"]

\* a second post, newer than the first, and a draft post that can be rendered
PagePost2 ==
    [id |-> 5, Permalink |-> <<"/", "b">>, Template |-> "layout",
     Date |-> 2, Draft |-> FALSE, Type |-> "post"]
PageDraftPost ==
    [id |-> 6, Permalink |-> <<"/", "d">>, Template |-> "layout",
     Date |-> 2, Draft |-> TRUE, Type |-> "post"]

\* a page whose permalink spells out the .html that PagePost's gets
PageSamePath ==
    [id |-> 7, Permalink |-> <<"/", "a">> \o dotHTML, Template |-> "layout",
     Date |-> NoDate, Draft |-> FALSE, Type |-> ""]

StaticCSS == [name |-> <<"m", ".", "c", "s", "s">>, hash |-> <<"h">>]

\* more static files: a robots.txt (on the skip list), an editor backup
\* (ignored by both passes) and a file without extension in a directory
StaticRobots == [name |-> robotsTxtName, hash |-> <<"r">>]
StaticBackup == [name |-> <<"m", ".", "c", "s", "s", "~">>, hash |-> <<"b">>]
StaticSub == [name |-> <<"d", "/", "a">>, hash |-> <<"g">>]

SrcTrees ==
    {[templates |-> {"layout"}, pages |-> <<PageIndex, PagePost>>, static |-> <<StaticCSS>>],
     [templates |-> {"layout"}, pages |-> <<PageIndex, PageDraft>>, static |-> <<StaticCSS>>]}

\* the trees a Build call of the build command starts on
BuildTrees ==
    SrcTrees \cup
    {[templates |-> {"layout"},
      pages |-> <<PageIndex, PagePost, PagePost2, PageDraftPost>>,
      static |-> <<StaticCSS>>],
     [templates |-> {"layout"},
      pages |-> <<PageIndex>>,
      static |-> <<StaticCSS, StaticRobots, StaticBackup, StaticSub>>],
     [templates |-> {"layout"},
      pages |-> <<PageIndex, PagePost, PageSamePath>>,
      static |-> <<StaticCSS>>]}

EmptyFiles == [p \in {} |-> 0]

Put(files, path, content) ==
    [p \in (DOMAIN files) \cup {path} |-> IF p = path THEN content ELSE files[p]]

Configs == [Prod : BOOLEAN, SkipFeed : BOOLEAN]

\* the Config the serve command hands to Serve: Prod and SkipFeed unset
ServeConfig == [Prod |-> FALSE, SkipFeed |-> FALSE]

\* what an earlier build left in the destination directory
PrevFiles ==
    Put(Put(EmptyFiles, <<"/">> \o <<"i", "n", "d", "e", "x">> \o dotHTML, <<"page", 1, "layout">>),
        <<"/", "o">> \o dotHTML, <<"page", 3, "layout">>)

\* what the watcher reports for a change under the watched roots
WatchedEvents ==
    {[name |-> <<"p", "/", "a", ".", "m", "d">>, op |-> {"Write"}],
     [name |-> <<"p", "/", "a", ".", "m", "d">>, op |-> {"Chmod"}]}

feedXML == <<"/", "f", "e", "e", "d", ".", "x", "m", "l">>
robotsTxt == <<"/">> \o robotsTxtName

\* a buildContext that is not in use: before Build is called and after it
\* has returned; log (the stages the call went through) and failedAt (the
\* stage whose error it returned) record what the call did.
IdleBuild ==
    [pc |-> "idle", templates |-> {}, pages |-> <<>>, static |-> EmptyFiles,
     i |-> 0, failedAt |-> "", log |-> <<>>]

Failed(b, stage) ==
    [IdleBuild EXCEPT !.pc = "failed", !.failedAt = stage, !.log = Append(b.log, stage)]

Running(b) == b.pc \notin {"idle", "done", "failed"}

LoadStages == {"templates", "pages", "static"}

-----------------------------------------------------------------------------
(* Build, one step per walk, per written file and for the clean-up.        *)

others == <<c, src, servePc, serveErr, ctxDone, watcher, events, watchLoop,
                httpSrv, debouncer, timers, nChanges>>

Touch(id) == touched' = IF dst' # dst THEN touched \cup {id} ELSE touched

\* Build with the clean-up moved to its top, before the templates are loaded
BuildParseTemplatesCleanFirst(id) ==
    /\ builds[id].pc = "templates"
    /\ dst' = [exists |-> TRUE, files |-> EmptyFiles]
    /\ \E ok \in BOOLEAN :
         builds' = [builds EXCEPT ![id] =
                       IF ok THEN [@ EXCEPT !.pc = "pages",
                                            !.templates = src.templates,
                                            !.log = Append(@, "templates")]
                       ELSE Failed(@, "templates")]
    /\ Touch(id)
    /\ UNCHANGED <<lastGood, hvars, others>>

\* filepath.WalkDir(templates, b.parseTemplates)
BuildParseTemplates(id) ==
    /\ builds[id].pc = "templates"
    /\ \E ok \in BOOLEAN :
         builds' = [builds EXCEPT ![id] =
                       IF ok THEN [@ EXCEPT !.pc = "pages",
                                            !.templates = src.templates,
                                            !.log = Append(@, "templates")]
                       ELSE Failed(@, "templates")]
    /\ UNCHANGED <<dst, lastGood, touched, hvars, others>>

\* Page.parse on the front matter fields of one source page
parsePage(p) ==
    [id |-> p.id, Permalink |-> p.Permalink, Template |-> p.Template, Date |-> p.Date,
     Draft |-> p.Draft, Type |-> IF p.Type = "" THEN "page" ELSE p.Type,
     dstPath |-> DstPath(p.Permalink)]

parseFails(p) ==
    \/ p.Permalink = <<>> \/ p.Template = ""
    \/ ~ValidRequestURI(p.Permalink)

\* parsePages without the draft filter
keepEveryPage(p) == TRUE

keepPage(p) == ~p.Draft \/ ~c.Prod

\* the pages helper of the templates
pagesByType(b, typ) ==
    IF typ = "" THEN b.pages
    ELSE SelectSeq(b.pages, LAMBDA p : p.Type = typ)

\* Build with the clean-up done while the pages are collected
BuildParsePagesCleanFirst(id) ==
    /\ builds[id].pc = "pages"
    /\ dst' = [exists |-> TRUE, files |-> EmptyFiles]
    /\ \E ok \in BOOLEAN :
         /\ ok => \A k \in 1..Len(src.pages) : ~parseFails(src.pages[k])
         /\ builds' = [builds EXCEPT ![id] =
                       IF ok THEN [@ EXCEPT !.pc = "static",
                                            !.pages = SelectSeq([k \in 1..Len(src.pages) |->
                                                                    parsePage(src.pages[k])], keepPage),
                                            !.log = Append(@, "pages")]
                       ELSE Failed(@, "pages")]
    /\ Touch(id)
    /\ UNCHANGED <<lastGood, hvars, others>>

\* filepath.WalkDir(pages, b.parsePages)
BuildParsePages(id) ==
    /\ builds[id].pc = "pages"
    /\ \E ok \in BOOLEAN :
         /\ ok => \A k \in 1..Len(src.pages) : ~parseFails(src.pages[k])
         /\ builds' = [builds EXCEPT ![id] =
                       IF ok THEN [@ EXCEPT !.pc = "static",
                                            !.pages = SelectSeq([k \in 1..Len(src.pages) |->
                                                                    parsePage(src.pages[k])], keepPage),
                                            !.log = Append(@, "pages")]
                       ELSE Failed(@, "pages")]
    /\ UNCHANGED <<dst, lastGood, touched, hvars, others>>

\* where Build goes on after page i - 1
afterPage(b, i) ==
    IF i <= Len(b.pages) THEN "write" ELSE IF ~c.SkipFeed THEN "feed" ELSE "robots"

hashed(files) ==
    {k \in 1..Len(files) : ~isIgnorable(files[k].name)
                           /\ \A skip \in skipHashing : ~Contains(files[k].name, skip)}

\* b.static after the hash pass over the static files
hashStatic(files) ==
    [key \in {<<"/">> \o files[k].name : k \in hashed(files)} |->
        LET k == CHOOSE k \in hashed(files) : <<"/">> \o files[k].name = key
        IN <<"/">> \o formatStaticName(files[k].name, files[k].hash)]

\* Build with the clean-up done before the static files are hashed
BuildHashStaticCleanFirst(id) ==
    /\ builds[id].pc = "static"
    /\ dst' = [exists |-> TRUE, files |-> EmptyFiles]
    /\ \E ok \in BOOLEAN :
         builds' = [builds EXCEPT ![id] =
                       IF ok THEN [@ EXCEPT !.pc = afterPage(builds[id], 1), !.i = 1,
                                            !.static = hashStatic(src.static),
                                            !.pages = SliceStable(@),
                                            !.log = @ \o <<"clear", "static">>]
                       ELSE Failed([builds[id] EXCEPT !.log = Append(@, "clear")], "static")]
    /\ Touch(id)
    /\ UNCHANGED <<lastGood, hvars, others>>

\* filepath.WalkDir(static, b.hashStatic), then the sort of b.pages
BuildHashStatic(id) ==
    /\ builds[id].pc = "static"
    /\ \E ok \in BOOLEAN :
         builds' = [builds EXCEPT ![id] =
                       IF ok THEN [@ EXCEPT !.pc = "clear",
                                            !.static = hashStatic(src.static),
                                            !.pages = SliceStable(@),
                                            !.log = Append(@, "static")]
                       ELSE Failed(@, "static")]
    /\ UNCHANGED <<dst, lastGood, touched, hvars, others>>

\* Build that only makes sure the destination directory is there
BuildClearKeep(id) ==
    /\ builds[id].pc = "clear"
    /\ \/ /\ dst' = [exists |-> TRUE, files |-> dst.files]
          /\ builds' = [builds EXCEPT ![id] =
                           [@ EXCEPT !.pc = afterPage(builds[id], 1), !.i = 1,
                                     !.log = Append(@, "clear")]]
       \/ /\ dst' = dst
          /\ builds' = [builds EXCEPT ![id] = Failed(@, "clear")]
    /\ Touch(id)
    /\ UNCHANGED <<lastGood, hvars, others>>

\* os.RemoveAll(Dst) if it exists, then os.MkdirAll(Dst)
BuildClear(id) ==
    /\ builds[id].pc = "clear"
    /\ \/ /\ dst' = [exists |-> TRUE, files |-> EmptyFiles]
          /\ builds' = [builds EXCEPT ![id] =
                           [@ EXCEPT !.pc = afterPage(builds[id], 1), !.i = 1,
                                     !.log = Append(@, "clear")]]
       \/ /\ dst' \in {dst, [exists |-> FALSE, files |-> EmptyFiles]}
          /\ builds' = [builds EXCEPT ![id] = Failed(@, "clear")]
    /\ Touch(id)
    /\ UNCHANGED <<lastGood, hvars, others>>

\* one round of the loop over b.pages: MkdirAll, Create, template lookup,
\* Page.build
BuildWritePage(id) ==
    LET b == builds[id]
        p == b.pages[b.i]
        created == [exists |-> TRUE,
                    files |-> Put(dst.files, p.dstPath, <<"empty">>)]
        written == [exists |-> TRUE,
                    files |-> Put(dst.files, p.dstPath, <<"page", p.id, p.Template>>)]
    IN
    /\ b.pc = "write"
    /\ \/ /\ p.Template \in b.templates
          /\ dst' = written
          /\ builds' = [builds EXCEPT ![id] =
                           [@ EXCEPT !.pc = afterPage(b, b.i + 1), !.i = b.i + 1,
                                     !.log = Append(@, "write")]]
       \/ /\ dst' \in {dst, created}
          /\ builds' = [builds EXCEPT ![id] = Failed(@, "write")]
    /\ Touch(id)
    /\ UNCHANGED <<lastGood, hvars, others>>

isPost(p) == p.Type = "post" /\ ~(p.Draft /\ c.Prod)

feedItems(pages) ==
    LET posts == SelectSeq(pages, isPost) IN [k \in 1..Len(posts) |-> posts[k].id]

\* buildFeed that makes an item of every page
BuildFeedEveryPage(id) ==
    LET b == builds[id] IN
    /\ b.pc = "feed"
    /\ \/ /\ dst.exists
          /\ dst' = [dst EXCEPT !.files =
                        Put(@, feedXML, <<"feed", [k \in 1..Len(b.pages) |-> b.pages[k].id]>>)]
          /\ builds' = [builds EXCEPT ![id] =
                           [@ EXCEPT !.pc = "robots", !.log = Append(@, "feed")]]
       \/ /\ dst' = dst
          /\ builds' = [builds EXCEPT ![id] = Failed(@, "feed")]
    /\ Touch(id)
    /\ UNCHANGED <<lastGood, hvars, others>>

\* b.buildFeed(), unless SkipFeed
BuildFeed(id) ==
    LET b == builds[id] IN
    /\ b.pc = "feed"
    /\ \/ /\ dst.exists
          /\ dst' = [dst EXCEPT !.files =
                        Put(@, feedXML, <<"feed", feedItems(b.pages)>>)]
          /\ builds' = [builds EXCEPT ![id] =
                           [@ EXCEPT !.pc = "robots", !.log = Append(@, "feed")]]
       \/ /\ dst' = dst
          /\ builds' = [builds EXCEPT ![id] = Failed(@, "feed")]
    /\ Touch(id)
    /\ UNCHANGED <<lastGood, hvars, others>>

\* Build is over without error: the goroutine that called it goes on.
Done(b, stage) == [IdleBuild EXCEPT !.pc = "done", !.log = Append(b.log, stage)]

\* os.WriteFile(robots.txt)
BuildRobots(id) ==
    LET b == builds[id] IN
    /\ b.pc = "robots"
    /\ \/ /\ dst.exists
          /\ dst' = [dst EXCEPT !.files = Put(@, robotsTxt, <<"robots">>)]
          /\ builds' = [builds EXCEPT ![id] =
                           IF src.static = <<>> THEN Done(@, "robots")
                           ELSE [@ EXCEPT !.pc = "copy", !.i = 1, !.log = Append(@, "robots")]]
          /\ IF src.static = <<>>
             THEN lastGood' = dst' /\ touched' = {}
             ELSE lastGood' = lastGood /\ Touch(id)
       \/ /\ dst' = dst
          /\ builds' = [builds EXCEPT ![id] = Failed(@, "robots")]
          /\ UNCHANGED <<lastGood, touched>>
    /\ UNCHANGED <<hvars, others>>

\* a copy pass that writes every file at its unfingerprinted path
BuildCopyStaticUnhashed(id) ==
    LET b == builds[id]
        f == src.static[b.i]
        to == <<"/">> \o f.name
        last == b.i >= Len(src.static)
    IN
    /\ b.pc = "copy"
    /\ \/ /\ b.i > Len(src.static)
          /\ dst' = dst
          /\ builds' = [builds EXCEPT ![id] = Done(@, "copy")]
          /\ lastGood' = dst /\ touched' = {}
       \/ /\ b.i <= Len(src.static)
          /\ dst' = IF isIgnorable(f.name) THEN dst
                    ELSE [exists |-> TRUE,
                          files |-> Put(dst.files, to, <<"static", f.hash>>)]
          /\ builds' = [builds EXCEPT ![id] =
                           IF last THEN Done(@, "copy")
                           ELSE [@ EXCEPT !.i = b.i + 1, !.log = Append(@, "copy")]]
          /\ IF last
             THEN lastGood' = dst' /\ touched' = {}
             ELSE lastGood' = lastGood /\ Touch(id)
       \/ /\ dst' = dst
          /\ builds' = [builds EXCEPT ![id] = Failed(@, "copy")]
          /\ UNCHANGED <<lastGood, touched>>
    /\ UNCHANGED <<hvars, others>>

\* filepath.WalkDir(static, b.copyStatic), one file per step; the walk ends
\* the Build call.
BuildCopyStatic(id) ==
    LET b == builds[id]
        f == src.static[b.i]
        key == <<"/">> \o f.name
        to == IF key \in DOMAIN b.static THEN b.static[key] ELSE key
        last == b.i >= Len(src.static)
    IN
    /\ b.pc = "copy"
    /\ \/ /\ b.i > Len(src.static)
          /\ dst' = dst
          /\ builds' = [builds EXCEPT ![id] = Done(@, "copy")]
          /\ lastGood' = dst /\ touched' = {}
       \/ /\ b.i <= Len(src.static)
          /\ dst' = IF isIgnorable(f.name) THEN dst
                    ELSE [exists |-> TRUE,
                          files |-> Put(dst.files, to, <<"static", f.hash>>)]
          /\ builds' = [builds EXCEPT ![id] =
                           IF last THEN Done(@, "copy")
                           ELSE [@ EXCEPT !.i = b.i + 1, !.log = Append(@, "copy")]]
          /\ IF last
             THEN lastGood' = dst' /\ touched' = {}
             ELSE lastGood' = lastGood /\ Touch(id)
       \/ /\ dst' = dst
          /\ builds' = [builds EXCEPT ![id] = Failed(@, "copy")]
          /\ UNCHANGED <<lastGood, touched>>
    /\ UNCHANGED <<hvars, others>>

-----------------------------------------------------------------------------
(* The HTTP handler of the dev server, on os.DirFS(c.Dst).                 *)

TrimPrefix(s, pre) == IF HasPrefix(s, pre) THEN SubSeq(s, Len(pre) + 1, Len(s)) ELSE s

\* fs.ValidPath: "." or unrooted, slash-separated elements, none of them
\* empty, "." or ".."
ValidPath(name) ==
    \/ name = <<".">>
    \/ /\ name # <<>>
       /\ LET segs == SplitSlash(name, <<>>, <<>>) IN
          \A k \in 1..Len(segs) : segs[k] \notin {<<>>, <<".">>, <<".", ".">>}

\* fs.Stat and Open on the directory: "invalid" for a name that is no valid
\* path, "notExist", "file" or "dir" (a directory is there when a file is
\* below it)
Stat(dir, name) ==
    IF ~ValidPath(name) THEN "invalid"
    ELSE IF ~dir.exists THEN "notExist"
    ELSE IF name = <<".">> THEN "dir"
    ELSE IF (<<"/">> \o name) \in DOMAIN dir.files THEN "file"
    ELSE IF \E f \in DOMAIN dir.files : HasPrefix(f, <<"/">> \o name \o <<"/">>) THEN "dir"
    ELSE "notExist"

ReadFile(dir, name) == dir.files[<<"/">> \o name]

notFoundHTML == <<"4", "0", "4">> \o dotHTML

\* the body of http.NotFound and the body of http.Error
notFoundBody == <<"404 page not found">>
errorBody == <<"error">>

serveNotFound(dir) ==
    LET f == Stat(dir, notFoundHTML) IN
    IF f = "notExist" THEN [status |-> 404, body |-> notFoundBody]
    ELSE IF f = "file" THEN [status |-> 404, body |-> ReadFile(dir, notFoundHTML)]
    ELSE [status |-> 404, body |-> <<>>]

\* a handler that tries the path itself before the path with .html
ServeHTTPLiteralFirst(dir, urlPath) ==
    LET p0 == IF urlPath = <<"/">> THEN urlPath \o <<"/">> \o <<"i", "n", "d", "e", "x">> \o dotHTML
              ELSE urlPath
        p1 == TrimPrefix(Clean(p0), <<"/">>)
        p  == IF Stat(dir, p1) \notin {"file", "dir"} /\ Stat(dir, p1 \o dotHTML) \in {"file", "dir"}
              THEN p1 \o dotHTML ELSE p1
        d  == Stat(dir, p)
    IN
    IF d = "notExist" THEN serveNotFound(dir)
    ELSE IF d = "invalid" THEN [status |-> 500, body |-> errorBody]
    ELSE IF d = "dir" THEN serveNotFound(dir)
    ELSE [status |-> 200, body |-> ReadFile(dir, p)]

\* staticHandler.ServeHTTP on a request without conditional or range headers
ServeHTTP(dir, urlPath) ==
    LET p0 == IF urlPath = <<"/">> THEN urlPath \o <<"/">> \o <<"i", "n", "d", "e", "x">> \o dotHTML
              ELSE urlPath
        p1 == TrimPrefix(Clean(p0), <<"/">>)
        p  == IF Stat(dir, p1 \o dotHTML) \in {"file", "dir"} THEN p1 \o dotHTML ELSE p1
        d  == Stat(dir, p)
    IN
    IF d = "notExist" THEN serveNotFound(dir)
    ELSE IF d = "invalid" THEN [status |-> 500, body |-> errorBody]
    ELSE IF d = "dir" THEN serveNotFound(dir)
    ELSE [status |-> 200, body |-> ReadFile(dir, p)]

-----------------------------------------------------------------------------
(* The debouncer.                                                          *)

\* debouncer.Do without the Stop of the timer armed before
DoNoStop ==
    /\ timers' = [timers EXCEPT ![debouncer.t + 1] = [state |-> "armed", doAtFire |-> 0]]
    /\ debouncer' = [t |-> debouncer.t + 1]

\* debouncer.Do that only schedules when nothing has been scheduled before
DoOnce ==
    /\ timers' = IF debouncer.t = 0
                 THEN [timers EXCEPT ![1] = [state |-> "armed", doAtFire |-> 0]]
                 ELSE [g \in TimerIds |->
                          IF g = debouncer.t /\ timers[g].state = "armed"
                          THEN [timers[g] EXCEPT !.state = "stopped"]
                          ELSE timers[g]]
    /\ debouncer' = [t |-> debouncer.t + 1]

\* debouncer.Do: under the mutex, stop the timer d.t points at, if any, and
\* point d.t at a new timer; timers are numbered in the order of the calls.
Do ==
    /\ timers' = [g \in TimerIds |->
                     IF g = debouncer.t + 1 THEN [state |-> "armed", doAtFire |-> 0]
                     ELSE IF g = debouncer.t /\ timers[g].state = "armed"
                     THEN [timers[g] EXCEPT !.state = "stopped"]
                     ELSE timers[g]]
    /\ debouncer' = [t |-> debouncer.t + 1]

\* The timer of time.AfterFunc fires: rebuild runs in a goroutine of its
\* own and calls Build.
TimerFire(g) ==
    /\ timers[g].state = "armed"
    /\ timers' = [timers EXCEPT ![g] = [state |-> "fired", doAtFire |-> debouncer.t]]
    /\ builds' = [builds EXCEPT ![g] = [IdleBuild EXCEPT !.pc = "templates"]]
    /\ UNCHANGED <<c, src, servePc, serveErr, ctxDone, watcher, events, watchLoop, httpSrv,
                   debouncer, dst, lastGood, touched, nChanges, hvars>>

-----------------------------------------------------------------------------
(* Serve.                                                                  *)

\* A file changes under the source roots; the watcher, once registered and
\* until closed, queues an event for it.
FsChange ==
    /\ nChanges < MaxEvents
    /\ nChanges' = nChanges + 1
    /\ \E ev \in WatchedEvents, tree \in SrcTrees :
         /\ src' = IF "Write" \in ev.op THEN tree ELSE src
         /\ events' = IF watcher = "open" THEN Append(events, ev) ELSE events
    /\ UNCHANGED <<c, servePc, serveErr, ctxDone, watcher, watchLoop, httpSrv, debouncer,
                   timers, builds, dst, lastGood, touched, hvars>>

\* The caller cancels the context.
Cancel ==
    /\ ~ctxDone
    /\ servePc # "returned"
    /\ ctxDone' = TRUE
    /\ UNCHANGED <<c, src, servePc, serveErr, watcher, events, watchLoop, httpSrv, debouncer,
                   timers, builds, dst, lastGood, touched, nChanges, hvars>>

\* Serve that returns the error of the initial Build
ServeSetupReturnBuildError ==
    /\ servePc = "initialBuild"
    /\ builds[0].pc \in {"done", "failed"}
    /\ \/ /\ builds[0].pc = "done"
          /\ servePc' = "serving"
          /\ watcher' = "open"
          /\ httpSrv' = "serving"
          /\ watchLoop' = "running"
          /\ serveErr' = serveErr
       \/ /\ servePc' = "returned"
          /\ serveErr' = "err"
          /\ UNCHANGED <<watcher, httpSrv, watchLoop>>
    /\ UNCHANGED <<c, src, ctxDone, events, debouncer, timers, builds, dst, lastGood,
                   touched, nChanges, hvars>>

\* Serve, after the initial Build has returned (its error is only logged):
\* create the watcher, register the roots, listen, start the HTTP server and
\* the watch loop.
ServeSetup ==
    /\ servePc = "initialBuild"
    /\ builds[0].pc \in {"done", "failed"}
    /\ \/ /\ servePc' = "serving"
          /\ watcher' = "open"
          /\ httpSrv' = "serving"
          /\ watchLoop' = "running"
          /\ serveErr' = serveErr
       \/ /\ servePc' = "returned"
          /\ serveErr' = "err"
          /\ UNCHANGED <<watcher, httpSrv, watchLoop>>
    /\ UNCHANGED <<c, src, ctxDone, events, debouncer, timers, builds, dst, lastGood,
                   touched, nChanges, hvars>>

\* The watch loop takes an event from watcher.Events.
WatchLoopEvent ==
    /\ watchLoop = "running"
    /\ events # <<>>
    /\ events' = Tail(events)
    /\ IF shouldRebuild(Head(events).name, Head(events).op)
       THEN Do
       ELSE UNCHANGED <<timers, debouncer>>
    /\ UNCHANGED <<c, src, servePc, serveErr, ctxDone, watcher, watchLoop, httpSrv, builds,
                   dst, lastGood, touched, nChanges, hvars>>

\* The watch loop takes ctx.Done() and returns.
WatchLoopDone ==
    /\ watchLoop = "running"
    /\ ctxDone
    /\ watchLoop' = "stopped"
    /\ UNCHANGED <<c, src, servePc, serveErr, ctxDone, watcher, events, httpSrv, debouncer,
                   timers, builds, dst, lastGood, touched, nChanges, hvars>>

\* httpSrv.Serve returns an error other than ErrServerClosed, which the
\* goroutine sends on errCh.
HttpFail ==
    /\ httpSrv = "serving"
    /\ httpSrv' = "failed"
    /\ UNCHANGED <<c, src, servePc, serveErr, ctxDone, watcher, events, watchLoop, debouncer,
                   timers, builds, dst, lastGood, touched, nChanges, hvars>>

\* Serve that returns at once when the context is cancelled, without
\* shutting the HTTP server down
ServeShutdownAbrupt ==
    /\ servePc = "serving"
    /\ ctxDone
    /\ servePc' = "returned"
    /\ watcher' = "closed"
    /\ serveErr' = "nil"
    /\ UNCHANGED <<c, src, ctxDone, events, watchLoop, httpSrv, debouncer, timers, builds,
                   dst, lastGood, touched, nChanges, hvars>>

\* Serve takes ctx.Done(): httpSrv.Shutdown with the 30s grace period, whose
\* result Serve returns; the deferred Close calls run.
ServeShutdown ==
    /\ servePc = "serving"
    /\ ctxDone
    /\ servePc' = "returned"
    /\ httpSrv' = "closed"
    /\ watcher' = "closed"
    /\ serveErr' \in {"nil", "err"}
    /\ UNCHANGED <<c, src, ctxDone, events, watchLoop, debouncer, timers, builds, dst,
                   lastGood, touched, nChanges, hvars>>

\* Serve takes the error from errCh and returns err, the variable that
\* net.Listen assigned nil to.
ServeHTTPError ==
    /\ servePc = "serving"
    /\ httpSrv = "failed"
    /\ servePc' = "returned"
    /\ watcher' = "closed"
    /\ serveErr' = "nil"
    /\ UNCHANGED <<c, src, ctxDone, events, watchLoop, httpSrv, debouncer, timers, builds,
                   dst, lastGood, touched, nChanges, hvars>>

-----------------------------------------------------------------------------
(* The dev server as a whole.                                              *)

\* no event is being looked at, no request is being answered
NoEvent == [dir |-> <<>>, base |-> <<>>, op |-> {}]
NoResponse == [status |-> 0, body |-> <<>>]
NoHandler == [pc |-> "idle", p |-> <<>>]

\* no helper is being called
NoArgs == [fn |-> "none"]
NoRet == [done |-> FALSE, value |-> <<>>]

\* no content file is being parsed
NoDoc == [ext |-> "", lines |-> <<>>, fields |-> ZeroFields]

HarnessIdle ==
    /\ pagesIn = <<>>
    /\ pagesOut = <<>>
    /\ sortRan = FALSE
    /\ permalink = <<>>
    /\ dstPath = <<>>
    /\ parseErr = "pending"
    /\ doc = NoDoc
    /\ page = ZeroPage
    /\ event = NoEvent
    /\ rebuild = "pending"
    /\ request = <<>>
    /\ response = NoResponse
    /\ handler = NoHandler
    /\ args = NoArgs
    /\ ret = NoRet

\* Serve has applied the defaults and is about to run the initial Build.
ServeStart ==
    /\ servePc = "initialBuild"
    /\ serveErr = "none"
    /\ ctxDone = FALSE
    /\ watcher = "none"
    /\ events = <<>>
    /\ watchLoop = "notStarted"
    /\ httpSrv = "none"
    /\ debouncer = [t |-> 0]
    /\ timers = [g \in TimerIds |-> [state |-> "unset", doAtFire |-> 0]]
    /\ builds = [id \in BuildIds |-> IF id = 0 THEN [IdleBuild EXCEPT !.pc = "templates"]
                                     ELSE IdleBuild]
    /\ dst = [exists |-> FALSE, files |-> EmptyFiles]
    /\ lastGood = dst
    /\ touched = {}
    /\ nChanges = 0

Init ==
    /\ c = ServeConfig
    /\ src \in SrcTrees
    /\ ServeStart
    /\ HarnessIdle

BuildStep(id) ==
    \/ BuildParseTemplates(id)
    \/ BuildParsePages(id)
    \/ BuildHashStatic(id)
    \/ BuildClear(id)
    \/ BuildWritePage(id)
    \/ BuildFeed(id)
    \/ BuildRobots(id)
    \/ BuildCopyStatic(id)

\* the server while the context is not cancelled and the HTTP server runs
NextRun ==
    \/ \E id \in BuildIds : BuildStep(id)
    \/ \E g \in TimerIds : TimerFire(g)
    \/ FsChange
    \/ ServeSetup
    \/ WatchLoopEvent

Next ==
    \/ NextRun
    \/ Cancel
    \/ WatchLoopDone
    \/ HttpFail
    \/ ServeShutdown
    \/ ServeHTTPError

Spec == Init /\ [][Next]_vars

SpecRun == Init /\ [][NextRun]_vars

\* Timers fire once their duration has passed, and the watch loop takes the
\* events that are waiting for it.
FairRun ==
    /\ SpecRun
    /\ \A g \in TimerIds : WF_vars(TimerFire(g))
    /\ WF_vars(WatchLoopEvent)

MaxCancelEvents == 1   \* file-system changes in a run that is cancelled

\* the server in a run that the caller cancels
NextCancel ==
    \/ \E id \in BuildIds : BuildStep(id)
    \/ \E g \in TimerIds : TimerFire(g)
    \/ FsChange /\ nChanges < MaxCancelEvents
    \/ ServeSetup
    \/ WatchLoopEvent
    \/ Cancel
    \/ WatchLoopDone
    \/ ServeShutdown

SpecCancel == Init /\ [][NextCancel]_vars

\* Every goroutine that can take a step takes it in the end: Serve itself,
\* the watch loop at its select, and each Build call.
FairCancel ==
    /\ SpecCancel
    /\ WF_vars(ServeSetup)
    /\ WF_vars(ServeShutdown)
    /\ WF_vars(WatchLoopDone)
    /\ \A id \in BuildIds : WF_vars(BuildStep(id))

MaxFailEvents == 1     \* file-system changes in a run whose HTTP server fails

\* the server in a run whose HTTP server stops with an error
NextFail ==
    \/ \E id \in BuildIds : BuildStep(id)
    \/ \E g \in TimerIds : TimerFire(g)
    \/ FsChange /\ nChanges < MaxFailEvents
    \/ ServeSetup
    \/ WatchLoopEvent
    \/ HttpFail
    \/ ServeHTTPError

SpecFail == Init /\ [][NextFail]_vars

MaxEdits == 2          \* file-system changes in a run in which a page comes and goes

\* the source tree with and without the page /a
EditTrees ==
    {[templates |-> {"layout"}, pages |-> <<PageIndex, PagePost>>, static |-> <<StaticCSS>>],
     [templates |-> {"layout"}, pages |-> <<PageIndex>>, static |-> <<StaticCSS>>]}

\* A content file is removed from the pages root or put back there; the
\* watcher, once registered and until closed, queues an event for it.
FsEdit ==
    /\ nChanges < MaxEdits
    /\ nChanges < MaxEvents
    /\ nChanges' = nChanges + 1
    /\ \E tree \in EditTrees \ {src} :
         /\ src' = tree
         /\ events' = IF watcher = "open"
                      THEN Append(events, [name |-> <<"p", "/", "a", ".", "m", "d">>,
                                           op |-> IF Len(tree.pages) = 1 THEN {"Remove"}
                                                  ELSE {"Create"}])
                      ELSE events
    /\ UNCHANGED <<c, servePc, serveErr, ctxDone, watcher, watchLoop, httpSrv, debouncer,
                   timers, builds, dst, lastGood, touched, hvars>>

\* the server in a run in which the set of pages changes
NextEdit ==
    \/ \E id \in BuildIds : BuildStep(id)
    \/ \E g \in TimerIds : TimerFire(g)
    \/ FsEdit
    \/ ServeSetup
    \/ WatchLoopEvent

\* Serve starts on a tree that is among those the changes lead to: the tree
\* with the page /a
EditInit ==
    /\ Init
    /\ src \in EditTrees

SpecEdit == EditInit /\ [][NextEdit]_vars

\* the server at rest, for the specifications of the pure functions
ServerIdle ==
    /\ c = ServeConfig
    /\ src = [templates |-> {}, pages |-> <<>>, static |-> <<>>]
    /\ ServeStart

-----------------------------------------------------------------------------
(* One Build call on its own, as the build command makes it.               *)

BuildInit ==
    /\ c \in Configs
    /\ src \in BuildTrees
    /\ servePc = "notCalled"
    /\ serveErr = "none"
    /\ ctxDone = FALSE
    /\ watcher = "none"
    /\ events = <<>>
    /\ watchLoop = "notStarted"
    /\ httpSrv = "none"
    /\ debouncer = [t |-> 0]
    /\ timers = [g \in TimerIds |-> [state |-> "unset", doAtFire |-> 0]]
    /\ builds = [id \in BuildIds |-> IF id = 0 THEN [IdleBuild EXCEPT !.pc = "templates"]
                                     ELSE IdleBuild]
    /\ dst \in {[exists |-> FALSE, files |-> EmptyFiles], [exists |-> TRUE, files |-> PrevFiles]}
    /\ lastGood = dst
    /\ touched = {}
    /\ nChanges = 0
    /\ HarnessIdle

BuildNext ==
    \/ BuildStep(0)
    \/ FsChange

SpecBuild == BuildInit /\ [][BuildNext]_vars

-----------------------------------------------------------------------------
(* The page sort applied to every short page list and to one list longer   *)
(* than a sort block.                                                      *)

Dates == {NoDate} \cup (1..MaxDate)

\* Page lists in discovery order: the id of a page is its discovery index.
PageLists ==
    UNION {{[k \in 1..n |-> [id |-> k, Date |-> f[k]]] : f \in [1..n -> Dates]} : n \in 0..MaxPages}

\* blockSize + 1 pages: newest-dated pages around one dateless page, then
\* one older page discovered last.
LongPageList ==
    [k \in 1..(blockSize + 1) |->
        [id |-> k,
         Date |-> IF k = blockSize \div 2 THEN NoDate
                  ELSE IF k = blockSize + 1 THEN 1
                  ELSE MaxDate]]

SortInit ==
    /\ pagesIn \in PageLists \cup {LongPageList}
    /\ pagesOut = <<>>
    /\ sortRan = FALSE
    /\ permalink = <<>>
    /\ dstPath = <<>>
    /\ parseErr = "pending"
    /\ doc = NoDoc
    /\ page = ZeroPage
    /\ event = NoEvent
    /\ rebuild = "pending"
    /\ request = <<>>
    /\ response = NoResponse
    /\ handler = NoHandler
    /\ args = NoArgs
    /\ ret = NoRet
    /\ ServerIdle

\* Build, from the end of the walks to the clean-up: sorts b.pages.
SortPages ==
    /\ ~sortRan
    /\ pagesOut' = SliceStable(pagesIn)
    /\ sortRan' = TRUE
    /\ UNCHANGED <<pagesIn, parseVars, watchVars, httpVars, funcVars, svars>>

SortNext == SortPages

SpecSort == SortInit /\ [][SortNext]_vars

-----------------------------------------------------------------------------
(* Page.parse applied to permalinks built from path pieces.                *)

Pieces == {<<"/">>, <<"a">>, <<".">>, dotHTML}

Permalinks ==
    UNION {{Flatten(f) : f \in [1..n -> Pieces]} : n \in 0..(MaxPieces + 1)}

ParseInit ==
    /\ permalink \in Permalinks
    /\ dstPath = <<>>
    /\ parseErr = "pending"
    /\ pagesIn = <<>>
    /\ pagesOut = <<>>
    /\ sortRan = FALSE
    /\ doc = NoDoc
    /\ page = ZeroPage
    /\ event = NoEvent
    /\ rebuild = "pending"
    /\ request = <<>>
    /\ response = NoResponse
    /\ handler = NoHandler
    /\ args = NoArgs
    /\ ret = NoRet
    /\ ServerIdle

\* Page.parse, from the check of the front matter fields to the return.
ParseFields ==
    /\ parseErr = "pending"
    /\ IF permalink = <<>>
       THEN parseErr' = "errFrontmatterMissingParam" /\ dstPath' = dstPath
       ELSE IF ~ValidRequestURI(permalink)
       THEN parseErr' = "errPermalinkInvalid" /\ dstPath' = dstPath
       ELSE parseErr' = "nil" /\ dstPath' = DstPath(permalink)
    /\ UNCHANGED <<permalink, doc, page, sortVars, watchVars, httpVars, funcVars, svars>>

ParseNext == ParseFields

SpecParse == ParseInit /\ [][ParseNext]_vars

-----------------------------------------------------------------------------
(* Page.parse applied to content files of a few lines.                     *)

MaxLines == 4      \* longest content file, in lines

Lines == {leftDelim, rightDelim, fieldsLine, textLine, longLine}

Exts == {".md", ".html", ".rst"}

\* what the fields line of a content file spells
FrontMatters ==
    {[Title |-> "Foo", Template |-> "layout", Permalink |-> <<"/">>, Type |-> ""],
     [Title |-> "Foo", Template |-> "test", Permalink |-> <<"/", "a">>, Type |-> "blog"],
     [Title |-> "", Template |-> "layout", Permalink |-> <<"/">>, Type |-> ""],
     [Title |-> "Foo", Template |-> "", Permalink |-> <<"/">>, Type |-> "blog"],
     [Title |-> "Foo", Template |-> "layout", Permalink |-> <<>>, Type |-> ""],
     [Title |-> "Foo", Template |-> "layout", Permalink |-> <<"a", "/">>, Type |-> ""]}

Docs ==
    UNION {[ext : Exts, lines : [1..n -> Lines], fields : FrontMatters] : n \in 0..MaxLines}

SplitInit ==
    /\ doc \in Docs
    /\ page = ZeroPage
    /\ event = NoEvent
    /\ rebuild = "pending"
    /\ request = <<>>
    /\ response = NoResponse
    /\ handler = NoHandler
    /\ args = NoArgs
    /\ ret = NoRet
    /\ permalink = <<>>
    /\ dstPath = <<>>
    /\ parseErr = "pending"
    /\ pagesIn = <<>>
    /\ pagesOut = <<>>
    /\ sortRan = FALSE
    /\ ServerIdle

\* p.parse(f), as parsePages calls it on a content file
Parse ==
    /\ parseErr = "pending"
    /\ LET r == parse(doc) IN
       /\ parseErr' = r.err
       /\ page' = r.page
       /\ permalink' = r.Permalink
       /\ dstPath' = r.dstPath
    /\ UNCHANGED <<doc, sortVars, watchVars, httpVars, funcVars, svars>>

SplitNext == Parse

SpecSplit == SplitInit /\ [][SplitNext]_vars

-----------------------------------------------------------------------------
(* shouldRebuild applied to events on files in and below the watched roots. *)

Ops == SUBSET {"Create", "Write", "Remove", "Rename", "Chmod"}

EventDirs ==
    {<<>>, <<"p", "/">>, <<"4", "9", "1", "3", "/">>, <<"a", "~", "/", "p", "/">>}

EventBases ==
    {<<".", "D", "S", "_", "S", "t", "o", "r", "e">>,
     <<"4", "9", "1", "3">>,
     <<"a", ".", "m", "d", "~">>,
     <<"~">>,
     <<"a", ".", "m", "d">>,
     <<"4", "9", "1", "3", "0">>,
     <<"a", ".", "D", "S", "_", "S", "t", "o", "r", "e">>,
     <<"~", "a">>}

WatchInit ==
    /\ event \in [dir : EventDirs, base : EventBases, op : Ops]
    /\ rebuild = "pending"
    /\ request = <<>>
    /\ response = NoResponse
    /\ handler = NoHandler
    /\ args = NoArgs
    /\ ret = NoRet
    /\ doc = NoDoc
    /\ page = ZeroPage
    /\ permalink = <<>>
    /\ dstPath = <<>>
    /\ parseErr = "pending"
    /\ pagesIn = <<>>
    /\ pagesOut = <<>>
    /\ sortRan = FALSE
    /\ ServerIdle

\* the watch loop asks shouldRebuild(event.Name, event.Op)
ShouldRebuild ==
    /\ rebuild = "pending"
    /\ rebuild' = IF shouldRebuild(event.dir \o event.base, event.op) THEN "true" ELSE "false"
    /\ UNCHANGED <<event, sortVars, parseVars, httpVars, funcVars, svars>>

WatchNext == ShouldRebuild

SpecWatch == WatchInit /\ [][WatchNext]_vars

-----------------------------------------------------------------------------
(* The HTTP handler applied to requests on a few output directories.       *)

MaxReqPieces == 3  \* request paths are "/" followed by up to MaxReqPieces pieces

ReqPieces == {<<"/">>, <<"a">>, <<"d">>, <<".">>, dotHTML}

Requests ==
    {<<"/">> \o Flatten(f) : f \in UNION {[1..n -> ReqPieces] : n \in 0..MaxReqPieces}}
    \cup {<<"/", "4", "0", "4">>, <<"/", "i", "n", "d", "e", "x">>}

\* output directories: with and without 404.html, with a page and a file of
\* the same name, with a directory, empty, and not there at all
ServedDirs ==
    {[exists |-> TRUE,
      files |-> Put(Put(Put(Put(Put(EmptyFiles,
                   <<"/", "i", "n", "d", "e", "x">> \o dotHTML, <<"page", 1, "layout">>),
                   <<"/", "a">> \o dotHTML, <<"page", 2, "layout">>),
                   <<"/", "a">>, <<"static", <<"h">>>>),
                   <<"/">> \o notFoundHTML, <<"page", 3, "layout">>),
                   <<"/", "d", "/", "a">> \o dotHTML, <<"page", 4, "layout">>)],
     [exists |-> TRUE,
      files |-> Put(Put(Put(Put(EmptyFiles,
                   <<"/", "i", "n", "d", "e", "x">> \o dotHTML, <<"page", 1, "layout">>),
                   <<"/", "a">>, <<"static", <<"h">>>>),
                   <<"/", "d">> \o dotHTML \o <<"/", "a">>, <<"static", <<"g">>>>),
                   <<"/", "d">>, <<"static", <<"f">>>>)],
     [exists |-> TRUE, files |-> EmptyFiles],
     [exists |-> FALSE, files |-> EmptyFiles]}

\* Serve is serving from a destination directory that the builds have left.
HTTPInit ==
    /\ request \in Requests
    /\ response = NoResponse
    /\ handler = NoHandler
    /\ args = NoArgs
    /\ ret = NoRet
    /\ dst \in ServedDirs
    /\ lastGood = dst
    /\ c = ServeConfig
    /\ src = [templates |-> {}, pages |-> <<>>, static |-> <<>>]
    /\ servePc = "serving"
    /\ serveErr = "none"
    /\ ctxDone = FALSE
    /\ watcher = "open"
    /\ events = <<>>
    /\ watchLoop = "running"
    /\ httpSrv = "serving"
    /\ debouncer = [t |-> 0]
    /\ timers = [g \in TimerIds |-> [state |-> "unset", doAtFire |-> 0]]
    /\ builds = [id \in BuildIds |-> IdleBuild]
    /\ touched = {}
    /\ nChanges = 0
    /\ event = NoEvent
    /\ rebuild = "pending"
    /\ doc = NoDoc
    /\ page = ZeroPage
    /\ permalink = <<>>
    /\ dstPath = <<>>
    /\ parseErr = "pending"
    /\ pagesIn = <<>>
    /\ pagesOut = <<>>
    /\ sortRan = FALSE

\* the HTTP server hands the request to the handler
HandleRequest ==
    /\ httpSrv = "serving"
    /\ response = NoResponse
    /\ response' = ServeHTTP(dst, request)
    /\ UNCHANGED <<request, handler, sortVars, parseVars, watchVars, funcVars, svars>>

HTTPNext == HandleRequest

SpecHTTP == HTTPInit /\ [][HTTPNext]_vars

-----------------------------------------------------------------------------
(* The url helper applied to arguments built from pieces, under configs    *)
(* with and without a base URL.                                            *)

MaxURLPieces == 3  \* arguments of url are made of up to MaxURLPieces pieces

URLPieces == {<<"/">>, <<"a">>, <<".">>, <<"?">>, httpPrefix, httpsPrefix, <<"h", "t", "t", "p">>}

URLArgs == UNION {{Flatten(f) : f \in [1..n -> URLPieces]} : n \in 0..MaxURLPieces}

exampleHost == <<"e", "x", ".", "c", "o", "m">>

\* BaseURL of the Config: nil, or https://ex.com with no path, with the path
\* /a and with the path /a/
BaseURLs ==
    {[nil |-> TRUE, Scheme |-> <<>>, Host |-> <<>>, Path |-> <<>>]}
    \cup [nil : {FALSE}, Scheme : {<<"h", "t", "t", "p", "s">>}, Host : {exampleHost},
          Path : {<<>>, <<"/", "a">>, <<"/", "a", "/">>}]

URLInit ==
    /\ args \in [fn : {"url"}, base : URLArgs]
    /\ ret = NoRet
    /\ c \in [Prod : BOOLEAN, SkipFeed : {FALSE}, BaseURL : BaseURLs]
    /\ src = [templates |-> {}, pages |-> <<>>, static |-> <<>>]
    /\ ServeStart
    /\ pagesIn = <<>>
    /\ pagesOut = <<>>
    /\ sortRan = FALSE
    /\ permalink = <<>>
    /\ dstPath = <<>>
    /\ parseErr = "pending"
    /\ doc = NoDoc
    /\ page = ZeroPage
    /\ event = NoEvent
    /\ rebuild = "pending"
    /\ request = <<>>
    /\ response = NoResponse
    /\ handler = NoHandler

\* a template calls url
CallURL ==
    /\ args.fn = "url"
    /\ ~ret.done
    /\ ret' = [done |-> TRUE, value |-> url(c, args.base)]
    /\ UNCHANGED <<args, sortVars, parseVars, watchVars, httpVars, svars>>

URLNext == CallURL

SpecURL == URLInit /\ [][URLNext]_vars

-----------------------------------------------------------------------------
(* formatStaticName applied to the names filepath.Rel can give a static    *)
(* file, with the hex digest of its bytes.                                 *)

MaxNamePieces == 4 \* static file names are made of up to MaxNamePieces pieces

NamePieces == {<<"a">>, <<".">>, <<"/">>}

\* relative, clean paths: no empty, "." or ".." element
StaticNames ==
    {n \in UNION {{Flatten(f) : f \in [1..k -> NamePieces]} : k \in 1..MaxNamePieces} :
        n # <<".">> /\ ValidPath(n)}

Hashes == {<<"h">>, <<"0", "f">>}

FormatInit ==
    /\ args \in [fn : {"formatStaticName"}, filename : StaticNames, hash : Hashes]
    /\ ret = NoRet
    /\ pagesIn = <<>>
    /\ pagesOut = <<>>
    /\ sortRan = FALSE
    /\ permalink = <<>>
    /\ dstPath = <<>>
    /\ parseErr = "pending"
    /\ doc = NoDoc
    /\ page = ZeroPage
    /\ event = NoEvent
    /\ rebuild = "pending"
    /\ request = <<>>
    /\ response = NoResponse
    /\ handler = NoHandler
    /\ ServerIdle

\* hashStatic calls formatStaticName(rel, hashhex)
CallFormatStaticName ==
    /\ args.fn = "formatStaticName"
    /\ ~ret.done
    /\ ret' = [done |-> TRUE, value |-> formatStaticName(args.filename, args.hash)]
    /\ UNCHANGED <<args, sortVars, parseVars, watchVars, httpVars, svars>>

FormatNext == CallFormatStaticName

SpecFormat == FormatInit /\ [][FormatNext]_vars

-----------------------------------------------------------------------------
(* The stripping of comments applied to page bodies of a few tokens.       *)

MaxTokens == 4     \* longest page body, in tokens

Tokens == {commentOpen, commentClose, newline, text}

Bodies == UNION {[1..n -> Tokens] : n \in 0..MaxTokens}

StripInit ==
    /\ args \in [fn : {"stripComments"}, contents : Bodies]
    /\ ret = NoRet
    /\ pagesIn = <<>>
    /\ pagesOut = <<>>
    /\ sortRan = FALSE
    /\ permalink = <<>>
    /\ dstPath = <<>>
    /\ parseErr = "pending"
    /\ doc = NoDoc
    /\ page = ZeroPage
    /\ event = NoEvent
    /\ rebuild = "pending"
    /\ request = <<>>
    /\ response = NoResponse
    /\ handler = NoHandler
    /\ ServerIdle

\* Page.build, from the expanded and converted body to the stripped one
StripComments ==
    /\ args.fn = "stripComments"
    /\ ~ret.done
    /\ ret' = [done |-> TRUE, value |-> stripComments(args.contents)]
    /\ UNCHANGED <<args, sortVars, parseVars, watchVars, httpVars, svars>>

StripNext == StripComments

SpecStrip == StripInit /\ [][StripNext]_vars

-----------------------------------------------------------------------------
(* The HTTP handler, one file-system call per step, while a rebuild clears *)
(* and rewrites the destination directory.                                 *)

\* requests for a page, for a static file, for the feed and for nothing
RaceRequests ==
    {<<"/">>, <<"/", "a">>, <<"/", "a">> \o dotHTML, feedXML,
     <<"/", "m", "-", "h", ".", "c", "s", "s">>, <<"/", "x">>}

\* what the initial build of Serve left in the destination directory
ServedFiles ==
    Put(Put(Put(Put(Put(EmptyFiles,
        <<"/", "i", "n", "d", "e", "x">> \o dotHTML, <<"page", 1, "layout">>),
        <<"/", "a">> \o dotHTML, <<"page", 2, "layout">>),
        feedXML, <<"feed", <<2>>>>),
        robotsTxt, <<"robots">>),
        <<"/", "m", "-", "h", ".", "c", "s", "s">>, <<"static", <<"h">>>>)

\* Serve is serving what its initial build wrote; a change has been seen,
\* its timer has fired and the rebuild is about to call Build; a request
\* arrives.
RaceInit ==
    /\ request \in RaceRequests
    /\ response = NoResponse
    /\ handler = NoHandler
    /\ c = ServeConfig
    /\ src = [templates |-> {"layout"}, pages |-> <<PageIndex, PagePost>>,
              static |-> <<StaticCSS>>]
    /\ dst = [exists |-> TRUE, files |-> ServedFiles]
    /\ lastGood = dst
    /\ touched = {}
    /\ servePc = "serving"
    /\ serveErr = "none"
    /\ ctxDone = FALSE
    /\ watcher = "open"
    /\ events = <<>>
    /\ watchLoop = "running"
    /\ httpSrv = "serving"
    /\ debouncer = [t |-> 1]
    /\ timers = [g \in TimerIds |-> IF g = 1 THEN [state |-> "fired", doAtFire |-> 1]
                                      ELSE [state |-> "unset", doAtFire |-> 0]]
    /\ builds = [id \in BuildIds |-> IF id = 1 THEN [IdleBuild EXCEPT !.pc = "templates"]
                                     ELSE IdleBuild]
    /\ nChanges = 1
    /\ args = NoArgs
    /\ ret = NoRet
    /\ event = NoEvent
    /\ rebuild = "pending"
    /\ doc = NoDoc
    /\ page = ZeroPage
    /\ permalink = <<>>
    /\ dstPath = <<>>
    /\ parseErr = "pending"
    /\ pagesIn = <<>>
    /\ pagesOut = <<>>
    /\ sortRan = FALSE

\* ServeHTTP, up to and with fs.Stat(h.fs, p+".html")
HandlerStatHTML ==
    /\ httpSrv = "serving"
    /\ handler.pc = "idle"
    /\ response = NoResponse
    /\ LET p0 == IF request = <<"/">>
                 THEN request \o <<"/">> \o <<"i", "n", "d", "e", "x">> \o dotHTML
                 ELSE request
           p1 == TrimPrefix(Clean(p0), <<"/">>)
       IN handler' = [pc |-> "stat",
                      p |-> IF Stat(dst, p1 \o dotHTML) \in {"file", "dir"}
                            THEN p1 \o dotHTML ELSE p1]
    /\ UNCHANGED <<request, response, sortVars, parseVars, watchVars, funcVars, svars>>

\* ServeHTTP: fs.Stat(h.fs, p) and what follows it up to fs.ReadFile
HandlerStat ==
    /\ handler.pc = "stat"
    /\ LET d == Stat(dst, handler.p) IN
       IF d = "file"
       THEN handler' = [handler EXCEPT !.pc = "read"] /\ response' = response
       ELSE /\ handler' = [handler EXCEPT !.pc = "done"]
            /\ response' = IF d = "invalid" THEN [status |-> 500, body |-> errorBody]
                            ELSE serveNotFound(dst)
    /\ UNCHANGED <<request, sortVars, parseVars, watchVars, funcVars, svars>>

\* ServeHTTP: fs.ReadFile(h.fs, p) and the answer
HandlerRead ==
    /\ handler.pc = "read"
    /\ handler' = [handler EXCEPT !.pc = "done"]
    /\ response' = IF Stat(dst, handler.p) = "file"
                    THEN [status |-> 200, body |-> ReadFile(dst, handler.p)]
                    ELSE [status |-> 500, body |-> errorBody]
    /\ UNCHANGED <<request, sortVars, parseVars, watchVars, funcVars, svars>>

RaceNext ==
    \/ HandlerStatHTML
    \/ HandlerStat
    \/ HandlerRead
    \/ BuildStep(1)

SpecRace == RaceInit /\ [][RaceNext]_vars

-----------------------------------------------------------------------------
(* Claims about the debouncer.                                             *)

Rebuilding == {g \in TimerIds : Running(builds[g])}

\* C1: at most one rebuild executes at a time: no two Build calls started by
\* the debouncer are ever in progress simultaneously.
C1_OneRebuildAtATime == Cardinality(Rebuilding) <= 1

\* C2: every qualifying event cancels the timer that is armed and has not
\* fired and arms a new one, so only the timer of the latest event is ever
\* armed; a rebuild is started only by a timer that fired, each timer that
\* fired did so with no later qualifying event before it, and so a burst of
\* events without a fire between them starts one rebuild, that of its last
\* event.
C2_Debounce ==
    \A g \in TimerIds :
        /\ timers[g].state = "unset" <=> g > debouncer.t
        /\ timers[g].state = "armed" => g = debouncer.t
        /\ timers[g].state = "stopped" => g < debouncer.t
        /\ timers[g].state = "fired" => timers[g].doAtFire = g
        /\ builds[g].pc # "idle" <=> timers[g].state = "fired"

\* a burst of two events, of which only the second started a rebuild
C2_Witness ==
    /\ timers[1].state = "stopped"
    /\ builds[1].pc = "idle"
    /\ timers[2].state = "fired"
    /\ builds[2].pc # "idle"

\* C3: once the watch loop has received a qualifying event and no further
\* event follows, the timer armed for the last qualifying event fires and
\* its rebuild starts.
C3_RebuildEventually ==
    <>[](debouncer.t = 0 \/ timers[debouncer.t].state = "fired")

\* every change has been reported and handled, and the rebuild of the last
\* qualifying event runs
C3_Witness ==
    /\ nChanges = MaxEvents
    /\ events = <<>>
    /\ debouncer.t > 0
    /\ timers[debouncer.t].state = "fired"
    /\ Running(builds[debouncer.t])

-----------------------------------------------------------------------------
(* Claims about Build.                                                     *)

\* C8: while a Build call loads templates, parses pages and hashes static
\* assets, and when it fails in one of these stages, the destination
\* directory and every file in it are as the previous build left them.
C8_FailedLoadKeepsDst ==
    (\/ builds[0].pc \in LoadStages
     \/ builds[0].pc = "failed" /\ builds[0].failedAt \in LoadStages) => dst = lastGood

C8_Witness ==
    /\ builds[0].pc = "failed"
    /\ builds[0].failedAt = "static"
    /\ dst = [exists |-> TRUE, files |-> PrevFiles]

\* every file of the snapshot is in the directory with the same content
Present(good, dir) ==
    \A p \in DOMAIN good.files : p \in DOMAIN dir.files /\ dir.files[p] = good.files[p]

\* C9 as stated: whenever a triggered rebuild has failed, at whatever stage,
\* the output of the last successful build is still in the destination
\* directory and the server serves it (stated for the case where no build
\* but the failed one has written to the directory since that build).
C9_AsStated ==
    \A g \in TimerIds :
        (builds[g].pc = "failed" /\ lastGood.exists /\ touched \subseteq {g}) =>
            Present(lastGood, dst) /\ httpSrv = "serving"

\* C9 (amended): a triggered rebuild that fails before its clean-up step
\* (loading templates, parsing pages, hashing static assets) has removed and
\* written nothing in the destination directory and the server goes on
\* serving: unless another build has written there since, the directory is
\* as the last successful build left it.
C9_FailedBeforeClear ==
    \A g \in TimerIds :
        (builds[g].pc = "failed" /\ builds[g].failedAt \in LoadStages) =>
            /\ g \notin touched
            /\ servePc = "serving" /\ httpSrv = "serving"
            /\ touched = {} => dst = lastGood

C9_Witness ==
    \E g \in TimerIds :
        /\ builds[g].pc = "failed"
        /\ builds[g].failedAt \in LoadStages
        /\ lastGood.exists
        /\ lastGood.files # EmptyFiles
        /\ dst = lastGood
        /\ httpSrv = "serving"

Rank(stage) ==
    CASE stage = "templates" -> 1
      [] stage = "pages" -> 2
      [] stage = "static" -> 3
      [] stage = "clear" -> 4
      [] stage = "write" -> 5
      [] stage = "feed" -> 6
      [] stage = "robots" -> 7
      [] stage = "copy" -> 8

\* C10: within every Build call the stages come in the order templates,
\* pages, static hashes, clean-up, page writes, feed, robots.txt, static
\* copies: the clean-up and every write come only after the three loading
\* stages have all succeeded, and only the page writes and the static copies
\* repeat.
C10_StageOrder ==
    \A id \in BuildIds :
        LET l == builds[id].log IN
        /\ \A x, y \in 1..Len(l) :
              x < y => /\ Rank(l[x]) <= Rank(l[y])
                       /\ Rank(l[x]) = Rank(l[y]) => l[x] \in {"write", "copy"}
        /\ (\E x \in 1..Len(l) : Rank(l[x]) >= 4)
              => (Len(l) >= 4 /\ SubSeq(l, 1, 4) = <<"templates", "pages", "static", "clear">>)
        /\ (\E x \in 1..Len(l) : Rank(l[x]) >= 4) => builds[id].failedAt \notin LoadStages
        /\ (builds[id].pc = "done" /\ c.SkipFeed) => \A x \in 1..Len(l) : l[x] # "feed"

C10_Witness ==
    /\ builds[0].pc = "done"
    /\ builds[0].log = <<"templates", "pages", "static", "clear", "write", "write",
                         "feed", "robots", "copy">>

-----------------------------------------------------------------------------
(* Claims about the page sort.                                             *)

\* C4: after Build sorts the page list, no dateless page precedes a dated
\* page.
C4_DatelessLast ==
    sortRan =>
        \A i, j \in 1..Len(pagesOut) :
            i < j => ~(pagesOut[i].Date = NoDate /\ pagesOut[j].Date # NoDate)

\* C5: the page sort is stable: two pages with equal keys (both dateless, or
\* the same date) keep their discovery order.
C5_Stable ==
    sortRan =>
        \A i, j \in 1..Len(pagesOut) :
            (i < j /\ pagesOut[i].Date = pagesOut[j].Date) => pagesOut[i].id < pagesOut[j].id

\* C6: after the sort, of two dated pages with different dates the one with
\* the later date comes first, whatever dateless pages are present.
C6_DatedDescending ==
    sortRan =>
        \A i, j \in 1..Len(pagesOut) :
            (/\ i < j
             /\ pagesOut[i].Date # NoDate
             /\ pagesOut[j].Date # NoDate
             /\ pagesOut[i].Date # pagesOut[j].Date) => pagesOut[i].Date > pagesOut[j].Date

-----------------------------------------------------------------------------
(* Claims about the destination path.                                      *)

\* The path below the destination directory: filepath.Join(Dst, dstPath)
\* makes the leading slash immaterial.
Rel(p) == IF p # <<>> /\ p[1] = "/" THEN Tail(p) ELSE p

indexHTML == <<"i", "n", "d", "e", "x">> \o dotHTML

\* A rooted path that path.Clean has nothing to do on.
IsCleanPath(p) ==
    \/ p = <<"/">>
    \/ /\ ValidRequestURI(p)
       /\ LET segs == SplitSlash(Tail(p), <<>>, <<>>) IN
          \A k \in 1..Len(segs) : segs[k] \notin {<<>>, <<".">>, <<".", ".">>}

\* C7 as stated, on permalinks that need no cleaning: "/" maps to index.html,
\* any other permalink not ending in .html gets /index.html appended, a
\* permalink ending in .html is unchanged.
C7_AsStated ==
    (parseErr = "nil" /\ IsCleanPath(permalink)) =>
        Rel(dstPath) = (IF permalink = <<"/">> THEN indexHTML
                        ELSE IF ~HasSuffix(permalink, dotHTML)
                        THEN Rel(permalink) \o <<"/">> \o indexHTML
                        ELSE Rel(permalink))

\* C7 (amended): "/" maps to index.html; any other permalink not ending in
\* .html gets .html appended; a permalink ending in .html is used unchanged;
\* the result is lexically cleaned, which leaves a clean permalink as it is,
\* and always ends in .html.
C7_DstPath ==
    parseErr = "nil" =>
        /\ permalink = <<"/">> => Rel(dstPath) = indexHTML
        /\ (IsCleanPath(permalink) /\ permalink # <<"/">> /\ ~HasSuffix(permalink, dotHTML))
              => dstPath = permalink \o dotHTML
        /\ (IsCleanPath(permalink) /\ HasSuffix(permalink, dotHTML)) => dstPath = permalink
        /\ HasSuffix(dstPath, dotHTML)
        /\ IsCleanPath(dstPath)

C7_Witness ==
    /\ parseErr = "nil"
    /\ permalink = <<"/", "a", "/", "a">>
    /\ dstPath = <<"/", "a", "/", "a">> \o dotHTML

-----------------------------------------------------------------------------
(* Claims about the front matter.                                          *)

\* the first open line, 0 if there is none
FirstOpen(lines) ==
    IF \E k \in 1..Len(lines) : lines[k] = leftDelim
    THEN CHOOSE k \in 1..Len(lines) :
             lines[k] = leftDelim /\ \A m \in 1..(k - 1) : lines[m] # leftDelim
    ELSE 0

\* the first close line after line o, 0 if there is none
FirstClose(lines, o) ==
    IF \E k \in (o + 1)..Len(lines) : lines[k] = rightDelim
    THEN CHOOSE k \in (o + 1)..Len(lines) :
             lines[k] = rightDelim /\ \A m \in (o + 1)..(k - 1) : lines[m] # rightDelim
    ELSE 0

\* the file has a block delimited by an open line and a later close line
HasBlock(lines) == FirstOpen(lines) # 0 /\ FirstClose(lines, FirstOpen(lines)) # 0

Block(lines) == SubSeq(lines, FirstOpen(lines), FirstClose(lines, FirstOpen(lines)))

Body(lines) == SubSeq(lines, FirstClose(lines, FirstOpen(lines)) + 1, Len(lines))

\* C11: for every input of a supported format without a front-matter block
\* (no open line, or an open line with no close line after it) parse fails
\* with the missing-front-matter error.
C11_MissingFrontMatter ==
    (/\ parseErr # "pending"
     /\ doc.ext \in supportedFormats
     /\ ~HasBlock(doc.lines)) => parseErr = "errFrontmatterMissing"

\* C12: whenever parse has split a file that has a block, the front matter
\* is exactly the lines from the first open line through the first close
\* line after it, so no line before the open line is in it, and the contents
\* are exactly the lines after that close line.
C12_Split ==
    (/\ parseErr \notin {"pending", "errFormatUnsupported", "errFrontmatterSplit"}
     /\ HasBlock(doc.lines)) =>
        /\ page.frontmatter = Block(doc.lines)
        /\ page.contents = Body(doc.lines)

\* C13: for every file of a supported format whose front-matter block
\* decodes as a JSON object with non-empty title and template and a
\* permalink that passes the URI check, parse succeeds, and the type of the
\* page is "page" when the front matter gives none and the given type
\* otherwise.
C13_ValidParses ==
    (/\ parseErr # "pending"
     /\ doc.ext \in supportedFormats
     /\ HasBlock(doc.lines)
     /\ Block(doc.lines) = <<leftDelim, fieldsLine, rightDelim>>
     /\ doc.fields.Title # ""
     /\ doc.fields.Template # ""
     /\ ValidRequestURI(doc.fields.Permalink)) =>
        /\ parseErr = "nil"
        /\ page.Type = (IF doc.fields.Type = "" THEN "page" ELSE doc.fields.Type)

-----------------------------------------------------------------------------
(* Claims about the event filter.                                          *)

\* C14: shouldRebuild returns false for every event kind when the base name
\* of the file is .DS_Store, is exactly 4913 or ends in ~; for any other path
\* it returns true when the event is a create, remove or write, and false
\* when the event is only a chmod or only a rename.
C14_ShouldRebuild ==
    rebuild # "pending" =>
        LET ignored == \/ event.base = <<".", "D", "S", "_", "S", "t", "o", "r", "e">>
                       \/ event.base = <<"4", "9", "1", "3">>
                       \/ event.base[Len(event.base)] = "~"
        IN /\ ignored => rebuild = "false"
           /\ (~ignored /\ event.op \cap {"Create", "Remove", "Write"} # {}) => rebuild = "true"
           /\ (~ignored /\ event.op \in {{"Chmod"}, {"Rename"}}) => rebuild = "false"

\* a write of a file named 4913 in a directory below a watched root
C14_Witness ==
    /\ rebuild = "false"
    /\ event.dir = <<"p", "/">>
    /\ event.base = <<"4", "9", "1", "3">>
    /\ event.op = {"Write"}

-----------------------------------------------------------------------------
(* Claims about the HTTP handler.                                          *)

IsFile(name) == (<<"/">> \o name) \in DOMAIN dst.files

Exists(name) ==
    \/ IsFile(name)
    \/ \E f \in DOMAIN dst.files : HasPrefix(f, <<"/">> \o name \o <<"/">>)

Content(name) == dst.files[<<"/">> \o name]

\* the names of the files of the output directory, with and without .html
Names ==
    {Tail(f) : f \in DOMAIN dst.files}
    \cup {SubSeq(f, 2, Len(f) - Len(dotHTML)) : f \in {g \in DOMAIN dst.files : HasSuffix(g, dotHTML)}}

Target ==
    LET name == IF request = <<"/">> THEN indexHTML
                ELSE JoinSlash(CleanSegs(SplitSlash(request, <<>>, <<>>), <<>>))
    IN IF Exists(name \o dotHTML) THEN name \o dotHTML ELSE name

\* C16: for every request whose resolved target is a directory or does not
\* exist the response has status 404, with the content of 404.html as body
\* if that file exists and the generic not-found body otherwise.
C16_NotFound ==
    (response # NoResponse /\ ~IsFile(Target)) =>
        response = [status |-> 404,
                    body |-> IF IsFile(notFoundHTML) THEN Content(notFoundHTML)
                             ELSE notFoundBody]

-----------------------------------------------------------------------------
(* Claims about Serve.                                                     *)

\* C17: when the initial Build of Serve has failed, Serve does not return
\* for it: it can go on to register the watches, bind the listener and
\* start the HTTP server and the watch loop, it then serves whatever the
\* destination directory holds, and the events that qualify are still
\* handed to the debouncer, whose timers still start rebuilds.
C17_InitialBuildFailure ==
    builds[0].pc = "failed" =>
        /\ servePc = "initialBuild" => ENABLED (ServeSetup /\ servePc' = "serving")
        /\ servePc = "serving" =>
              watcher = "open" /\ httpSrv = "serving" /\ watchLoop = "running"
        /\ (/\ servePc = "serving"
            /\ events # <<>>
            /\ shouldRebuild(Head(events).name, Head(events).op)) =>
              ENABLED (WatchLoopEvent /\ timers'[debouncer'.t].state = "armed")
        /\ \A g \in TimerIds :
              timers[g].state = "armed" =>
                 ENABLED (TimerFire(g) /\ builds'[g].pc = "templates")

\* the initial build failed, the server serves, and a rebuild started by a
\* later change has succeeded
C17_Witness ==
    /\ builds[0].pc = "failed"
    /\ servePc = "serving"
    /\ httpSrv = "serving"
    /\ \E g \in TimerIds : builds[g].pc = "done" /\ dst = lastGood /\ dst.exists

\* C18 as stated, for the return: once the context has been cancelled while
\* Serve was serving and Serve has shut the HTTP server down and returned,
\* it has returned without error.
C18_AsStated ==
    (ctxDone /\ servePc = "returned" /\ httpSrv = "closed") => serveErr = "nil"

\* the log of a Build call only grows, by the stage it has just gone through
Proceeds(b, b2) ==
    \/ b2 = b
    \/ /\ Len(b2.log) = Len(b.log) + 1
       /\ SubSeq(b2.log, 1, Len(b.log)) = b.log

\* C18 (amended): when the context is cancelled while Serve is serving, the
\* watch loop stops, the HTTP server is shut down and Serve returns, with
\* what the shutdown returned; no step aborts a Build call that is in
\* progress, and a rebuild in progress when the context is cancelled runs to
\* the end of its Build call.
C18_Cancellation ==
    /\ (ctxDone /\ servePc = "serving") ~>
          (servePc = "returned" /\ httpSrv = "closed" /\ watchLoop = "stopped"
           /\ serveErr \in {"nil", "err"})
    /\ \A g \in TimerIds :
          (ctxDone /\ Running(builds[g])) ~> (builds[g].pc \in {"done", "failed"})
    /\ [][\A id \in BuildIds : Running(builds[id]) => Proceeds(builds[id], builds'[id])]_vars

\* Serve has returned after the cancellation while a rebuild that was in
\* progress goes on writing
C18_Witness ==
    /\ ctxDone
    /\ servePc = "returned"
    /\ httpSrv = "closed"
    /\ watchLoop = "stopped"
    /\ \E g \in TimerIds : builds[g].pc = "write" /\ builds[g].i > 1

-----------------------------------------------------------------------------
(* Claims about drafts and the feed.                                       *)

\* the step of Build call id that ends its page walk without error
PagesParsed(id) == builds[id].pc = "pages" /\ builds'[id].pc = "static"

\* the step of Build call id that renders and writes one page
PageWritten(id) ==
    /\ builds[id].pc = "write"
    /\ builds'[id].pc \in {"write", "feed", "robots"}
    /\ builds'[id].i = builds[id].i + 1

\* the step of Build call id that writes the feed
FeedWritten(id) == builds[id].pc = "feed" /\ builds'[id].pc = "robots"

\* C19: in production mode no draft is in the page list, so that none is
\* returned by the pages helper, written to the output or put in the feed;
\* in non-production mode every page of the source, draft or not, is in the
\* page list once the page walk has succeeded.
C19_Drafts ==
    /\ [](c.Prod =>
             \A id \in BuildIds, typ \in {"", "page", "post"} :
                LET ps == pagesByType(builds[id], typ) IN
                \A k \in 1..Len(ps) : ~ps[k].Draft)
    /\ [][\A id \in BuildIds :
             /\ PagesParsed(id) =>
                   LET kept == {k \in 1..Len(src.pages) : c.Prod => ~src.pages[k].Draft}
                       ps == builds'[id].pages
                   IN /\ Len(ps) = Cardinality(kept)
                      /\ \A k \in kept : \E m \in 1..Len(ps) :
                            /\ ps[m].id = src.pages[k].id
                            /\ ps[m].Draft = src.pages[k].Draft
             /\ PageWritten(id) =>
                   LET p == builds[id].pages[builds[id].i] IN
                   /\ c.Prod => ~p.Draft
                   /\ dst'.files[p.dstPath] = <<"page", p.id, p.Template>>
             /\ FeedWritten(id) =>
                   LET items == dst'.files[feedXML][2] IN
                   \A k \in 1..Len(items), m \in 1..Len(builds[id].pages) :
                      (c.Prod /\ builds[id].pages[m].id = items[k])
                         => ~builds[id].pages[m].Draft]_vars

\* a production build of a tree with a draft that could be rendered has
\* written the pages and the feed
C19_Witness ==
    /\ c.Prod /\ ~c.SkipFeed
    /\ nChanges = 0
    /\ \E k \in 1..Len(src.pages) : src.pages[k] = PageDraftPost
    /\ builds[0].pc = "done"
    /\ feedXML \in DOMAIN dst.files
    /\ (<<"/", "d">> \o dotHTML) \notin DOMAIN dst.files
    /\ (<<"/", "b">> \o dotHTML) \in DOMAIN dst.files

\* the ids of the pages of type post, in the order of the list
RECURSIVE PostIds(_)
PostIds(pages) ==
    IF pages = <<>> THEN <<>>
    ELSE (IF Head(pages).Type = "post" THEN <<Head(pages).id>> ELSE <<>>)
         \o PostIds(Tail(pages))

\* C20: the feed is written only by the feed step of a Build call whose
\* feed is not skipped, after every page of the list has been rendered and
\* written, and holds one item for every page of type post in the page
\* list and nothing else, in the order of the list; when the feed is
\* skipped no step writes a feed.
C20_Feed ==
    /\ [](c.SkipFeed => \A id \in BuildIds : builds[id].pc # "feed")
    /\ [][/\ \A id \in BuildIds :
               FeedWritten(id) =>
                  LET b == builds[id] IN
                  /\ ~c.SkipFeed
                  /\ dst'.files[feedXML] = <<"feed", PostIds(b.pages)>>
                  /\ b.i = Len(b.pages) + 1
                  /\ Len(SelectSeq(b.log, LAMBDA st : st = "write")) = Len(b.pages)
                  /\ \A k \in 1..Len(b.pages) :
                        LET last == CHOOSE m \in k..Len(b.pages) :
                                        /\ b.pages[m].dstPath = b.pages[k].dstPath
                                        /\ \A n \in (m + 1)..Len(b.pages) :
                                              b.pages[n].dstPath # b.pages[k].dstPath
                        IN /\ b.pages[k].dstPath \in DOMAIN dst.files
                           /\ dst.files[b.pages[k].dstPath]
                                 = <<"page", b.pages[last].id, b.pages[last].Template>>
          /\ (/\ feedXML \in DOMAIN dst'.files
              /\ feedXML \in DOMAIN dst.files => dst'.files[feedXML] # dst.files[feedXML])
                => \E id \in BuildIds : FeedWritten(id)]_vars

\* a finished build whose feed holds two posts, next to a page that is no
\* post
C20_Witness ==
    /\ ~c.SkipFeed
    /\ builds[0].pc = "done"
    /\ (<<"/">> \o indexHTML) \in DOMAIN dst.files
    /\ feedXML \in DOMAIN dst.files
    /\ Len(dst.files[feedXML][2]) = 2

-----------------------------------------------------------------------------
(* Claims about the template helpers and the static files.                 *)

LastDot(s) ==
    IF \E k \in 1..Len(s) : s[k] = "."
    THEN CHOOSE k \in 1..Len(s) : s[k] = "." /\ \A m \in (k + 1)..Len(s) : s[m] # "."
    ELSE 0

\* the extension of a file name: the suffix of its last element that begins
\* at the last dot, empty if there is no dot
Ext(name) ==
    LET base == SubSeq(name, LastSlash(name) + 1, Len(name)) IN
    IF LastDot(base) = 0 THEN <<>> ELSE SubSeq(base, LastDot(base), Len(base))

\* C22: for every static file name and non-empty hash, the fingerprinted
\* name is the name with -<hash> inserted immediately before the file's
\* extension, or with -<hash> appended when the name has no extension; the
\* directory part of the path is unchanged.
C22_Fingerprint ==
    (args.fn = "formatStaticName" /\ ret.done) =>
        LET name == args.filename
            ext == Ext(name)
            stem == SubSeq(name, 1, Len(name) - Len(ext))
        IN ret.value = stem \o <<"-">> \o args.hash \o ext

HasComment(s) ==
    \E i, j \in 1..Len(s) : i < j /\ s[i] = commentOpen /\ s[j] = commentClose

\* C24: after a page is rendered, its content contains no <!-- ... --> span:
\* comment stripping removes every non-nested HTML comment from the expanded
\* (and, for Markdown, converted) body, however many comments there are and
\* whether a comment is on one line or spans several.
C24_NoComments ==
    (args.fn = "stripComments" /\ ret.done) => ~HasComment(ret.value)

-----------------------------------------------------------------------------
(* Claims about the return of Serve.                                       *)

\* C25: if the HTTP server inside Serve stops with an error other than
\* server-closed, Serve returns a non-nil error to its caller.
C25_ServeReturnsError ==
    (servePc = "returned" /\ httpSrv = "failed") => serveErr = "err"

\* a Build call starts
BuildStarts(id) == builds[id].pc = "idle" /\ builds'[id].pc = "templates"

\* C27: after Serve has returned because of cancellation, no new Build call
\* is started: a debounce timer that was armed before the cancellation does
\* not start a rebuild after the return.
C27_NoBuildAfterReturn ==
    [][(servePc = "returned" /\ httpSrv = "closed") => \A id \in BuildIds : ~BuildStarts(id)]_vars

-----------------------------------------------------------------------------
(* Claims about the destination directory.                                 *)

\* what one Build call over a source tree writes, in the order it writes it
Writes(tree) ==
    LET parsed == [k \in 1..Len(tree.pages) |-> parsePage(tree.pages[k])]
        pages == SliceStable(SelectSeq(parsed, keepPage))
        kept == SelectSeq(tree.static, LAMBDA f : ~isIgnorable(f.name))
        names == hashStatic(tree.static)
    IN [k \in 1..Len(pages) |->
           [path |-> pages[k].dstPath, content |-> <<"page", pages[k].id, pages[k].Template>>]]
       \o (IF c.SkipFeed THEN <<>>
           ELSE <<[path |-> feedXML, content |-> <<"feed", feedItems(pages)>>]>>)
       \o <<[path |-> robotsTxt, content |-> <<"robots">>]>>
       \o [k \in 1..Len(kept) |->
              [path |-> IF (<<"/">> \o kept[k].name) \in DOMAIN names
                        THEN names[<<"/">> \o kept[k].name]
                        ELSE <<"/">> \o kept[k].name,
               content |-> <<"static", kept[k].hash>>]]

\* the files a sequence of writes leaves in a directory that was empty
FilesOf(ws) ==
    [p \in {ws[k].path : k \in 1..Len(ws)} |->
        ws[CHOOSE k \in 1..Len(ws) :
              ws[k].path = p /\ \A m \in (k + 1)..Len(ws) : ws[m].path # p].content]

BuildOutput(tree) == FilesOf(Writes(tree))

\* the file-system events have stopped, each one has reached the debouncer,
\* and every rebuild that was scheduled has finished successfully
Settled ==
    /\ servePc = "serving"
    /\ events = <<>>
    /\ debouncer.t = nChanges
    /\ debouncer.t > 0
    /\ \A g \in TimerIds : timers[g].state # "armed"
    /\ \A g \in TimerIds : timers[g].state = "fired" => builds[g].pc = "done"

\* C26: in the dev server, once filesystem events have stopped and every
\* scheduled rebuild has finished successfully, the destination directory
\* equals the output of one Build over the final source tree.
C26_ConvergesToLastSource ==
    Settled => (dst.exists /\ dst.files = BuildOutput(src))

\* the page list of a Build call over a source tree
PageList(tree) ==
    SliceStable(SelectSeq([k \in 1..Len(tree.pages) |-> parsePage(tree.pages[k])], keepPage))

\* C28: after a successful Build, for every page in the page list the file
\* at that page's destination path holds that page's own rendered document;
\* in particular no two pages of one build are written to the same
\* destination path.
C28_OwnDocument ==
    (builds[0].pc = "done" /\ nChanges = 0) =>
        LET pages == PageList(src) IN
        \A k \in 1..Len(pages) :
            /\ pages[k].dstPath \in DOMAIN dst.files
            /\ dst.files[pages[k].dstPath] = <<"page", pages[k].id, pages[k].Template>>

\* a file that only an earlier build wrote
oldHTML == <<"/", "o">> \o dotHTML

\* C29: after a Build call that completes successfully with no other Build
\* running at the same time, the destination directory contains exactly the
\* files that call wrote (the pages, the feed unless skipped, robots.txt and
\* the static assets); no file left by an earlier build survives, and no
\* page from an earlier build is in the page list.
C29_ExactOutput ==
    /\ []((builds[0].pc = "done" /\ nChanges = 0) =>
              (dst.exists /\ dst.files = BuildOutput(src)))
    /\ [](builds[0].pc = "done" => oldHTML \notin DOMAIN dst.files)
    /\ [][PagesParsed(0) =>
             \A m \in 1..Len(builds'[0].pages) :
                \E k \in 1..Len(src.pages) : builds'[0].pages[m] = parsePage(src.pages[k])]_vars

\* a build that found the files of an earlier build has ended well
C29_Witness ==
    /\ builds[0].pc = "done"
    /\ nChanges = 0
    /\ lastGood = dst
    /\ Len(src.pages) = 1
    /\ DOMAIN dst.files \cap DOMAIN PrevFiles = {<<"/">> \o indexHTML}
    /\ robotsTxt \in DOMAIN dst.files

\* C30: for every interleaving of an HTTP request with a rebuild that clears
\* and rewrites the destination directory, the handler's response status is
\* 200 or 404, never a 5xx: a file that disappears between the handler's
\* existence check and its read is answered as not found.
C30_NoServerError ==
    handler.pc = "done" => response.status \in {200, 404}

====
